---- MODULE Spec2Model ----
(***************************************************************************)
(* Hotel MCP server: the session store, the search tools and the booking   *)
(* quote poll loop, as one state machine.  One tool invocation runs at a   *)
(* time; it is split at its suspension points (the Gateway calls and the   *)
(* inter-poll delay).                                                      *)
(***************************************************************************)
EXTENDS Integers, Sequences, FiniteSets, TLC

\* ------------------------------------------------------------------------
\* Program constants
\* ------------------------------------------------------------------------
MAX_QUOTE_POLL_ATTEMPTS == 30

QUOTE_POLL_INTERVAL_MS == 2000

\* maxAttempts / setTimeout literal of the inline book-hotel handler
HandlerMaxAttempts == 30

HandlerPollIntervalMs == 2000

\* JS undefined / null of a string-valued field
Undefined == "undefined"

\* the defaults createSession imports from the configuration module
DEFAULT_MARKET == "DEFAULT_MARKET"

DEFAULT_CURRENCY == "DEFAULT_CURRENCY"

DEFAULT_COUNTRY_CODE == "DEFAULT_COUNTRY_CODE"

\* createSession calls in one run of the model
MaxSessions == 2

\* delays of one bookHotel call that the model follows (more than the
\* attempt budget of the poll loop)
MaxDelays == 32

\* counter increments, and histogram values, recorded in a run
MaxRecords == 3

\* ------------------------------------------------------------------------
\* Data: what the Backend Gateway can return
\* ------------------------------------------------------------------------
MkRate(id, opq) ==
    [rate_id |-> id, provider_id |-> "prov", check_in_date |-> "2025-06-25",
     check_out_date |-> "2025-06-26", opaque |-> opq]

MkRoom(id, rates) == [room_id |-> id, rates |-> rates]

\* two rooms; the second room carries rates the first one does not
HotelA ==
    [id |-> 1, name |-> "Alpha", amenities |-> << >>,
     rooms |-> << MkRoom("rm1", << MkRate("rA1", "opq-A1") >>),
                  MkRoom("rm2", << MkRate("rA2", "opq-A2"), MkRate("rA3", "opq-A3") >>) >>]

\* a later record of the same hotel id, with fewer rates
HotelA2 ==
    [id |-> 1, name |-> "Alpha (refreshed)", amenities |-> << >>,
     rooms |-> << MkRoom("rm1", << MkRate("rA1", "opq-A1b") >>) >>]

\* first room without rates, the only rate sits on the second room and
\* comes from another provider, for other dates
HotelB ==
    [id |-> 2, name |-> "Beta", amenities |-> << >>,
     rooms |-> << MkRoom("rm3", << >>),
                  MkRoom("rm4", << [rate_id |-> "rB1", provider_id |-> "prov-2",
                                    check_in_date |-> "2025-07-01",
                                    check_out_date |-> "2025-07-03",
                                    opaque |-> "opq-B1"] >>) >>]

\* a hotel without rooms
HotelC == [id |-> 3, name |-> "Gamma", amenities |-> << >>, rooms |-> << >>]

\* makeApiRequest results of /api/v1/hotels/availability: ok = FALSE is the
\* null that makeApiRequest returns on a network error or a non-2xx status;
\* has_more is a member of some bodies only
AvailabilityResponses ==
    { [ok |-> FALSE, hotels |-> << >>, total |-> 0, session_id |-> Undefined],
      [ok |-> TRUE, hotels |-> << >>, total |-> 0, session_id |-> "s1"],
      [ok |-> TRUE, hotels |-> << HotelA, HotelB >>, total |-> 2, session_id |-> "s1",
       has_more |-> TRUE],
      [ok |-> TRUE, hotels |-> << HotelA2 >>, total |-> 1, session_id |-> "s1",
       has_more |-> FALSE],
      [ok |-> TRUE, hotels |-> << HotelC, HotelA >>, total |-> 2, session_id |-> "s2"] }

\* what fetch() and response.json() can do on an availability request: the
\* request fails on the network, the Gateway answers with a non-success
\* status (and a JSON error body without hotels), the body is not JSON, or
\* the Gateway answers 200 with an availability body
AvailabilityFetches ==
    { [kind |-> "network error", status |-> 0, json |-> FALSE,
       body |-> [ok |-> TRUE, hotels |-> << >>, total |-> 0, session_id |-> Undefined]],
      [kind |-> "http", status |-> 500, json |-> TRUE,
       body |-> [ok |-> TRUE, hotels |-> << >>, total |-> 0, session_id |-> Undefined]],
      [kind |-> "http", status |-> 200, json |-> FALSE,
       body |-> [ok |-> TRUE, hotels |-> << >>, total |-> 0, session_id |-> Undefined]] }
    \cup { [kind |-> "http", status |-> 200, json |-> TRUE, body |-> r] :
              r \in { x \in AvailabilityResponses : x.ok } }

\* no request sent
NoFetch == [kind |-> "none", status |-> 0, json |-> FALSE,
            body |-> [ok |-> FALSE, hotels |-> << >>, total |-> -1, session_id |-> Undefined]]

\* no availability response received
NoAvailability == [ok |-> FALSE, hotels |-> << >>, total |-> -1, session_id |-> Undefined]

MkPlace(id, lat, lng) == [place_id |-> id, latitude |-> lat, longitude |-> lng]

\* confirmedPlace: null
NullPlace == MkPlace("null", 0, 0)

PlaceP1 == MkPlace("p1", 48, 2)

PlaceP2 == MkPlace("p2", 51, 0)

\* makeApiRequest results of /api/v1/hotels/places/autocomplete
AutocompleteResponses ==
    { [ok |-> FALSE, predictions |-> << >>],
      [ok |-> TRUE, predictions |-> << >>],
      [ok |-> TRUE, predictions |-> << PlaceP1 >>],
      [ok |-> TRUE, predictions |-> << PlaceP2, PlaceP1 >>] }

\* makeApiRequest results of /api/v1/booking/quote/schedule
ScheduleResponses ==
    { [ok |-> FALSE, reference |-> Undefined, id |-> Undefined],
      [ok |-> TRUE, reference |-> Undefined, id |-> Undefined],
      [ok |-> TRUE, reference |-> "q1", id |-> "q1"],
      [ok |-> TRUE, reference |-> "q2", id |-> "q2"],
      [ok |-> TRUE, reference |-> Undefined, id |-> "q3"] }

\* no quote-schedule response received
NoSchedule == [ok |-> FALSE, reference |-> "none", id |-> "none"]

\* the quote ids of the model
QuoteIds == {"q1", "q2", "q3"}

MkPrice(present, amount, currency) ==
    [present |-> present, amount |-> amount, currency |-> currency]

MkProduct(name, cin, cout, price) ==
    [hotel_name |-> name, check_in_date |-> cin, check_out_date |-> cout,
     rate_info |-> [selling_price |-> price]]

MkQuote(products) == [present |-> TRUE, quoted_products |-> products]

\* pullResponse.quote absent; also the initial quoteResult = null
NoQuote == [present |-> FALSE, quoted_products |-> << >>]

\* pullResponse.quote of a "success" response
Quotes ==
    LET
        ProductX == MkProduct("Alpha", "2025-06-25", "2025-06-26", MkPrice(TRUE, 120, "EUR"))

        ProductY == MkProduct("Beta", "2025-07-01", "2025-07-03", MkPrice(TRUE, 95, "GBP"))

        \* a product whose rate_info has no selling_price
        ProductZ == MkProduct("Gamma", "2025-08-01", "2025-08-02", MkPrice(FALSE, 0, Undefined))
    IN  { MkQuote(<< ProductX, ProductY >>), MkQuote(<< ProductY >>),
          MkQuote(<< ProductZ, ProductX >>), MkQuote(<< >>) }

MkPull(status, quote, error) ==
    [ok |-> TRUE, status |-> status, quote |-> quote, error |-> error]

\* makeApiRequest returned null
PullFailure == [ok |-> FALSE, status |-> Undefined, quote |-> NoQuote, error |-> Undefined]

\* makeApiRequest results of /api/v1/booking/quote/pull/<id>
PullResponses ==
    { PullFailure, MkPull("processing", NoQuote, Undefined) }
    \cup { MkPull("success", q, Undefined) : q \in Quotes \cup {NoQuote} }
    \cup { MkPull("failed", NoQuote, e) : e \in {"rate sold out", Undefined} }
    \cup { MkPull("expired", NoQuote, Undefined) }

\* no quote-pull response received yet in this invocation
NoPull == [ok |-> FALSE, status |-> "none", quote |-> NoQuote, error |-> Undefined]

\* tool parameters
HotelIdParams == {"1", "2", "3", "9"}

RateIdParams == {"rA1", "rA3", "rB1", "zz"}

PlaceIdParams == {Undefined, "p1", "p2", "p9"}

\* latitude, longitude of the coordinate-based search
Coordinates == { <<48, 2>> }

BookVariants == {"modular", "yaml", "handler"}

\* createSession parameters: place missing, empty, blank, or given
CreateSessionParams ==
    { [place |-> Undefined, language |-> Undefined, currency |-> Undefined,
       country_code |-> Undefined],
      [place |-> "", language |-> "fr", currency |-> "EUR", country_code |-> "fr"],
      [place |-> "   ", language |-> Undefined, currency |-> Undefined,
       country_code |-> Undefined],
      [place |-> "Paris", language |-> Undefined, currency |-> Undefined,
       country_code |-> Undefined],
      [place |-> "Paris", language |-> "fr", currency |-> "EUR", country_code |-> "fr"] }

\* load_more continuation ids
SessionIdParams == {"s1", "s2"}

\* ------------------------------------------------------------------------
\* Pure helpers
\* ------------------------------------------------------------------------
\* x || d on a string-valued field
StrOr(s, d) == IF s = Undefined \/ s = "" THEN d ELSE s

\* place.trim() on the place strings of the model
Trim(s) == IF s = "   " THEN "" ELSE s

\* uuidv4(): the n-th value generated; no two are equal
Uuid(n) == "uuid-" \o ToString(n)

\* mutant: the HTTP status of the response is not looked at
MakeApiRequest_IgnoresStatus(fetch, null) ==
    IF fetch.kind = "http" /\ fetch.json THEN fetch.body ELSE null

\* makeApiRequest: the parsed body of a 2xx response; null when fetch
\* rejects, when response.ok is false or when response.json() rejects
MakeApiRequest(fetch, null) ==
    IF fetch.kind = "http" /\ fetch.status \in 200..299 /\ fetch.json
    THEN fetch.body
    ELSE null

\* session.hotels[hotel.id.toString()]
HotelKey(hotel) == ToString(hotel.id)

\* mutant: a key that is already cached keeps its first record
UpsertHotels_FirstWins(store, list) ==
    LET keys == { HotelKey(list[i]) : i \in 1..Len(list) }
        first(k) == CHOOSE i \in 1..Len(list) :
                        /\ HotelKey(list[i]) = k
                        /\ \A j \in 1..Len(list) : HotelKey(list[j]) = k => i <= j
    IN  [k \in (DOMAIN store) \cup keys |->
            IF k \in DOMAIN store THEN store[k] ELSE list[first(k)]]

\* hotels.forEach(hotel => session.hotels[hotel.id.toString()] = hotel):
\* upsert by key, the last record of the list wins, other keys are kept
UpsertHotels(store, list) ==
    LET keys == { HotelKey(list[i]) : i \in 1..Len(list) }
        last(k) == CHOOSE i \in 1..Len(list) :
                       /\ HotelKey(list[i]) = k
                       /\ \A j \in 1..Len(list) : HotelKey(list[j]) = k => j <= i
    IN  [k \in (DOMAIN store) \cup keys |->
            IF k \in keys THEN list[last(k)] ELSE store[k]]

\* status of a search after the availability call returned resp
AvailabilityStatus(resp) ==
    IF ~resp.ok THEN "error"
    ELSE IF Len(resp.hotels) = 0 THEN "empty"
    ELSE "success"

\* mutant: the map is rebuilt from the returned list on every response
HotelsAfterAvailability_Replace(store, resp) ==
    IF ~resp.ok THEN store ELSE UpsertHotels([k \in {} |-> HotelC], resp.hotels)

\* the upsert that leaves a key alone once it is in the map
HotelsAfterAvailability_KeepsExisting(store, resp) ==
    LET new == UpsertHotels([k \in {} |-> HotelC], resp.hotels)
    IN  IF AvailabilityStatus(resp) = "success"
        THEN [k \in DOMAIN store \cup DOMAIN new |->
                 IF k \in DOMAIN store THEN store[k] ELSE new[k]]
        ELSE store

\* session.hotels after the availability call returned resp: the early
\* returns on a failed call and on an empty list leave the map alone
HotelsAfterAvailability(store, resp) ==
    IF AvailabilityStatus(resp) = "success" THEN UpsertHotels(store, resp.hotels)
    ELSE store

\* a find that falls back to the first suggestion when no place_id matches
FindPlace_FirstOnMiss(suggestions, id) ==
    LET M == { i \in 1..Len(suggestions) : suggestions[i].place_id = id }
    IN  IF M = {} THEN suggestions[1]
        ELSE suggestions[CHOOSE i \in M : \A j \in M : i <= j]

\* session.placeSuggestions.find(place => place.place_id === id): first match
FindPlace(suggestions, id) ==
    LET M == { i \in 1..Len(suggestions) : suggestions[i].place_id = id }
    IN  IF M = {} THEN NullPlace
        ELSE suggestions[CHOOSE i \in M : \A j \in M : i <= j]

\* mutant: a place_id that matches nothing selects the first suggestion
SelectedPlace_DefaultsToFirst(suggestions, place_id) ==
    IF Len(suggestions) > 0
    THEN IF FindPlace(suggestions, place_id) # NullPlace
         THEN FindPlace(suggestions, place_id)
         ELSE suggestions[1]
    ELSE NullPlace

\* the place_id branch that never selects a suggestion
SelectedPlace_IgnoresPlaceId(suggestions, place_id) == NullPlace

\* the place_id branch of searchHotels: the selected suggestion, or null
SelectedPlace(suggestions, place_id) ==
    IF place_id # Undefined /\ place_id # "" /\ Len(suggestions) > 0
    THEN FindPlace(suggestions, place_id)
    ELSE NullPlace

\* mutant: only the first room's rates are scanned
FindRate_FirstRoomOnly(hotel, rate_id) ==
    LET M == IF Len(hotel.rooms) = 0 THEN {}
             ELSE { n \in 1..Len(hotel.rooms[1].rates) :
                        hotel.rooms[1].rates[n].rate_id = rate_id }
    IN  IF M = {} THEN [found |-> FALSE, room |-> 0, rate |-> 0]
        ELSE [found |-> TRUE, room |-> 1, rate |-> CHOOSE n \in M : \A m \in M : n <= m]

\* mutant: an unknown rate id falls back to the first rate of the hotel
FindRate_DefaultsToFirst(hotel, rate_id) ==
    LET M == UNION { { <<i, j>> : j \in { n \in 1..Len(hotel.rooms[i].rates) :
                                          hotel.rooms[i].rates[n].rate_id = rate_id } }
                     : i \in 1..Len(hotel.rooms) }
        A == UNION { { <<i, j>> : j \in 1..Len(hotel.rooms[i].rates) }
                     : i \in 1..Len(hotel.rooms) }
        S == IF M = {} THEN A ELSE M
    IN  IF S = {} THEN [found |-> FALSE, room |-> 0, rate |-> 0]
        ELSE LET p == CHOOSE p \in S : \A q \in S :
                          p[1] < q[1] \/ (p[1] = q[1] /\ p[2] <= q[2])
             IN  [found |-> TRUE, room |-> p[1], rate |-> p[2]]

\* the nested for-loops of bookHotel: rooms in order, rates in order, the
\* first rate whose rate_id matches; found = FALSE is (!room || !rate)
FindRate(hotel, rate_id) ==
    LET M == UNION { { <<i, j>> : j \in { n \in 1..Len(hotel.rooms[i].rates) :
                                          hotel.rooms[i].rates[n].rate_id = rate_id } }
                     : i \in 1..Len(hotel.rooms) }
    IN  IF M = {} THEN [found |-> FALSE, room |-> 0, rate |-> 0]
        ELSE LET p == CHOOSE p \in M : \A q \in M :
                          p[1] < q[1] \/ (p[1] = q[1] /\ p[2] <= q[2])
             IN  [found |-> TRUE, room |-> p[1], rate |-> p[2]]

\* no quote request built
NoRequest == [products |-> << >>]

\* a quote request for the stay dates the search tool defaults to
QuoteRequest_DefaultDates(variant, hotel, rate) ==
    [products |-> <<
        [product_type |-> IF variant = "modular" THEN "hotel" ELSE "HotelProduct",
         provider_id |-> rate.provider_id,
         hotel_id |-> ToString(hotel.id),
         check_in_date |-> "2025-06-25",
         check_out_date |-> "2025-06-26",
         opaque_rate_data |-> rate.opaque] >>]

\* the single-product quote request
QuoteRequest(variant, hotel, rate) ==
    [products |-> <<
        [product_type |-> IF variant = "modular" THEN "hotel" ELSE "HotelProduct",
         provider_id |-> rate.provider_id,
         hotel_id |-> ToString(hotel.id),
         check_in_date |-> rate.check_in_date,
         check_out_date |-> rate.check_out_date,
         opaque_rate_data |-> rate.opaque] >>]

\* mutant: the modular tool reads .id, as the single-file servers do
ScheduledQuoteId_ReadsId(variant, resp) ==
    IF ~resp.ok THEN Undefined ELSE StrOr(resp.id, Undefined)

\* the quote id read from the schedule response (Undefined: the early
\* return "Failed to schedule quote"); the modular tool reads .reference,
\* the single-file servers read .id
ScheduledQuoteId(variant, resp) ==
    IF ~resp.ok THEN Undefined
    ELSE IF variant = "modular" THEN StrOr(resp.reference, Undefined)
    ELSE StrOr(resp.id, Undefined)

\* the while condition without the attempt budget
PollContinues_NoBudget(variant, quoteStatus, attempts) ==
    quoteStatus = "processing"

\* mutant: the budget test lets one more iteration through
PollContinues_OffByOne(variant, quoteStatus, attempts) ==
    /\ quoteStatus = "processing"
    /\ attempts <= (IF variant = "handler" THEN HandlerMaxAttempts
                    ELSE MAX_QUOTE_POLL_ATTEMPTS)

\* the while condition of the poll loop
PollContinues(variant, quoteStatus, attempts) ==
    /\ quoteStatus = "processing"
    /\ attempts < (IF variant = "handler" THEN HandlerMaxAttempts
                   ELSE MAX_QUOTE_POLL_ATTEMPTS)

\* a quote-pull call without a response that is taken for an error status
StatusAfterPull_FailureIsStatus(quoteStatus, resp) ==
    IF ~resp.ok THEN "error" ELSE resp.status

\* a status the loop does not know that is taken for "processing"
StatusAfterPull_UnknownIsProcessing(quoteStatus, resp) ==
    IF ~resp.ok THEN quoteStatus
    ELSE IF resp.status \in {"success", "failed"} THEN resp.status
    ELSE "processing"

\* quoteStatus after the quote-pull call returned resp:
\* if (!pullResponse) continue; quoteStatus = pullResponse.status
StatusAfterPull(quoteStatus, resp) ==
    IF ~resp.ok THEN quoteStatus ELSE resp.status

\* setTimeout interval of the poll loop
PollInterval(variant) ==
    IF variant = "handler" THEN HandlerPollIntervalMs ELSE QUOTE_POLL_INTERVAL_MS

\* Buffer.from(quoteId).toString("base64") on the quote ids of the model
Base64(s) ==
    CASE s = "q1" -> "cTE="
      [] s = "q2" -> "cTI="
      [] s = "q3" -> "cTM="
      [] OTHER -> "dW5kZWZpbmVk"

\* `${selling_price?.amount || "N/A"} ${selling_price?.currency || "USD"}`
TotalPrice(product) ==
    LET sp == product.rate_info.selling_price
        amount == IF ~sp.present \/ sp.amount = 0 THEN "N/A" ELSE ToString(sp.amount)
        currency == IF ~sp.present THEN "USD" ELSE StrOr(sp.currency, "USD")
    IN  amount \o " " \o currency

\* `Quote generation failed: ${pullResponse.error || "Unknown error"}`
FailedText(resp) == "Quote generation failed: " \o StrOr(resp.error, "Unknown error")

\* what the poll loop does on status "failed": pollForQuoteStatus throws,
\* the inline handler returns the text
FailedOutcome(variant, resp) ==
    IF variant = "handler"
    THEN [kind |-> "return", text |-> FailedText(resp)]
    ELSE [kind |-> "throw", message |-> FailedText(resp)]

\* mutant: the timed-out result carries no payment link (as in the YAML server)
BookHotelResult_NoLinkOnTimeout(quoteId, quoteResult) ==
    IF ~quoteResult.present
    THEN [kind |-> "return", status |-> "processing",
          message |-> "Quote is still processing.", quote_id |-> quoteId]
    ELSE [kind |-> "return", status |-> "success", action |-> "N/A",
          hotel |-> "Unknown hotel", check_in |-> "N/A", check_out |-> "N/A",
          total_price |-> "N/A",
          payment_link |-> "https://app.jinko.so/checkout/" \o quoteId,
          quote_id |-> quoteId]

\* mutant: the link of a success result is built from the encoded quote id
BookHotelResult_LinkByOutcome(quoteId, quoteResult) ==
    IF ~quoteResult.present
    THEN [kind |-> "return", status |-> "processing",
          message |-> "Quote is still processing.",
          payment_link |-> "https://app.jinko.so/checkout/" \o quoteId,
          quote_id |-> quoteId]
    ELSE [kind |-> "return", status |-> "success", action |-> "N/A",
          hotel |-> "Unknown hotel", check_in |-> "N/A", check_out |-> "N/A",
          total_price |-> "N/A",
          payment_link |-> "https://app.jinko.so/checkout/" \o Base64(quoteId),
          quote_id |-> quoteId]

\* mutant: the last quoted product is surfaced instead of the first
BookHotelResult_LastProduct(quoteId, quoteResult) ==
    LET paymentLink == "https://app.jinko.so/checkout/" \o quoteId
    IN  IF ~quoteResult.present
        THEN [kind |-> "return", status |-> "processing",
              message |-> "Quote is still processing.",
              payment_link |-> paymentLink, quote_id |-> quoteId]
        ELSE IF Len(quoteResult.quoted_products) > 0
        THEN LET product == quoteResult.quoted_products[Len(quoteResult.quoted_products)]
             IN  [kind |-> "return", status |-> "success", action |-> "N/A",
                  hotel |-> StrOr(product.hotel_name, "Unknown hotel"),
                  check_in |-> product.check_in_date,
                  check_out |-> product.check_out_date,
                  total_price |-> TotalPrice(product),
                  payment_link |-> paymentLink, quote_id |-> quoteId]
        ELSE [kind |-> "return", status |-> "success", action |-> "N/A",
              hotel |-> "Unknown hotel", check_in |-> "N/A", check_out |-> "N/A",
              total_price |-> "N/A",
              payment_link |-> paymentLink, quote_id |-> quoteId]

\* modular bookHotel after pollForQuoteStatus returned quoteResult
BookHotelResult(quoteId, quoteResult) ==
    LET paymentLink == "https://app.jinko.so/checkout/" \o quoteId
    IN  IF ~quoteResult.present
        THEN [kind |-> "return", status |-> "processing",
              message |-> "Quote is still processing. Please check the status and complete your booking using the following payment link.",
              payment_link |-> paymentLink, quote_id |-> quoteId]
        ELSE IF Len(quoteResult.quoted_products) > 0
        THEN LET product == quoteResult.quoted_products[1]
             IN  [kind |-> "return", status |-> "success",
                  action |-> "Make sure the payment_link should be displayed to user, which allow them to click and pay the booking.",
                  hotel |-> StrOr(product.hotel_name, "Unknown hotel"),
                  check_in |-> product.check_in_date,
                  check_out |-> product.check_out_date,
                  total_price |-> TotalPrice(product),
                  payment_link |-> paymentLink, quote_id |-> quoteId]
        ELSE [kind |-> "return", status |-> "success", action |-> "N/A",
              hotel |-> "Unknown hotel", check_in |-> "N/A", check_out |-> "N/A",
              total_price |-> "N/A",
              payment_link |-> paymentLink, quote_id |-> quoteId]

\* single-file YAML server bookHotel after pollForQuoteStatus returned
BookHotelYamlResult(quoteId, quoteResult) ==
    LET encodedQuoteId == Base64(quoteId)
        paymentLink == "http://www.jinko.so/booking/pay/" \o encodedQuoteId
    IN  IF ~quoteResult.present
        THEN [kind |-> "return", status |-> "processing",
              message |-> "Quote is still processing. You can check the status later using quote ID: " \o quoteId,
              quote_id |-> quoteId]
        ELSE IF Len(quoteResult.quoted_products) > 0
        THEN LET product == quoteResult.quoted_products[1]
             IN  [kind |-> "return", status |-> "success",
                  hotel |-> StrOr(product.hotel_name, "Unknown hotel"),
                  check_in |-> product.check_in_date,
                  check_out |-> product.check_out_date,
                  total_price |-> TotalPrice(product),
                  payment_link |-> paymentLink, quote_id |-> encodedQuoteId]
        ELSE [kind |-> "return", status |-> "success",
              hotel |-> "Unknown hotel", check_in |-> "N/A", check_out |-> "N/A",
              total_price |-> "N/A",
              payment_link |-> paymentLink, quote_id |-> encodedQuoteId]

\* inline book-hotel handler after its poll loop ended without "failed"
BookHotelHandlerResult(quoteId, quoteStatus, quoteResult) ==
    IF quoteStatus = "processing"
    THEN [kind |-> "return",
          text |-> "Quote is still processing. You can check the status later using quote ID: " \o quoteId]
    ELSE IF ~quoteResult.present
    THEN [kind |-> "return",
          text |-> "Failed to retrieve quote result. Please try again later."]
    ELSE LET encodedQuoteId == Base64(quoteId)
             paymentLink == "http://www.jinko.so/booking/pay/" \o encodedQuoteId
             productInfo ==
                 IF Len(quoteResult.quoted_products) > 0
                 THEN LET product == quoteResult.quoted_products[1]
                      IN  "Hotel: " \o StrOr(product.hotel_name, "Unknown hotel")
                          \o "\nCheck-in: " \o product.check_in_date
                          \o "\nCheck-out: " \o product.check_out_date
                          \o "\nTotal Price: " \o TotalPrice(product)
                 ELSE ""
         IN  [kind |-> "return",
              text |-> "Your hotel booking quote has been created successfully!\n\n"
                       \o productInfo
                       \o "\n\nTo complete your booking, please proceed to the payment page:\n"
                       \o paymentLink \o "\n\nQuote ID: " \o encodedQuoteId]

\* the result of a book-hotel call whose poll loop ended without "failed"
PollFinished(variant, quoteId, quoteStatus, quoteResult) ==
    CASE variant = "modular" -> BookHotelResult(quoteId, quoteResult)
      [] variant = "yaml" -> BookHotelYamlResult(quoteId, quoteResult)
      [] OTHER -> BookHotelHandlerResult(quoteId, quoteStatus, quoteResult)

\* an early error return: createJsonResponse / createYamlResponse carry a
\* status, the inline handler returns the bare text
ErrorReturn(variant, text) ==
    IF variant = "handler" THEN [kind |-> "return", text |-> text]
    ELSE [kind |-> "return", status |-> "error", message |-> text]

HotelNotFoundText(hotel_id) ==
    "Hotel with ID " \o hotel_id \o " not found in session. Please use the search-hotels tool to find hotels first."

RateNotFoundText(hotel_id, rate_id) ==
    "Room or rate with ID " \o rate_id \o " not found in hotel " \o hotel_id \o "."

\* mutant: an already confirmed place wins over the place_id of the call
PlaceToUse_KeepsConfirmed(selectedPlace, confirmed) ==
    IF confirmed # NullPlace THEN confirmed ELSE selectedPlace

\* placeToUse of searchHotels: the suggestion the place_id selects, else
\* session.confirmedPlace
PlaceToUse(selectedPlace, confirmed) ==
    IF selectedPlace # NullPlace THEN selectedPlace ELSE confirmed

\* the availability request: location as strings, page size 50
AvailabilityRequest(latitude, longitude) ==
    [location |-> [latitude |-> ToString(latitude), longitude |-> ToString(longitude)],
     limit |-> 50]

\* the load_more request
LoadMoreRequest(session_id) == [session_id |-> session_id]

\* ------------------------------------------------------------------------
\* View formatters
\* ------------------------------------------------------------------------
\* r.f of an optional field: d stands for undefined
Opt(r, f, d) == IF f \in DOMAIN r THEN r[f] ELSE d

\* a price value is string | number
Num(n) == [t |-> "num", n |-> n, s |-> ""]

Str(s) == [t |-> "str", n |-> 0, s |-> s]

MkMoney(value, currency) == [value |-> value, currency |-> currency]

\* truthiness of a price value: 0 and "" are falsy
Truthy(v) == IF v.t = "num" THEN v.n # 0 ELSE v.s # ""

\* `${value}` of a price value
Display(v) == IF v.t = "num" THEN ToString(v.n) ELSE v.s

\* Number(value) on the price values of the model; k = "nan" is NaN
NumberOf(v) ==
    IF v.t = "num" THEN [k |-> "num", n |-> v.n]
    ELSE CASE v.s = "95" -> [k |-> "num", n |-> 95]
           [] v.s = "60" -> [k |-> "num", n |-> 60]
           [] v.s = "" -> [k |-> "num", n |-> 0]
           [] OTHER -> [k |-> "nan", n |-> 0]

\* `${x.min_price?.value || "N/A"} ${x.min_price?.currency || "USD"}`
MinPriceText(x) ==
    IF "min_price" \in DOMAIN x
    THEN (IF Truthy(x.min_price.value) THEN Display(x.min_price.value) ELSE "N/A")
         \o " " \o StrOr(x.min_price.currency, "USD")
    ELSE "N/A USD"

\* `${rate.selling_price?.value || "N/A"} ${rate.selling_price?.currency || "USD"}`
SellingPriceText(rate) ==
    IF "selling_price" \in DOMAIN rate
    THEN (IF Truthy(rate.selling_price.value) THEN Display(rate.selling_price.value)
          ELSE "N/A")
         \o " " \o StrOr(rate.selling_price.currency, "USD")
    ELSE "N/A USD"

\* the opaque payloads of the model that are JSON
OpaquePayLater ==
    "{\"pricing\":{\"pricing_type\":\"pay_later\"},\"meal_plan\":{\"description\":\"Breakfast\"}}"

OpaquePayNow == "{\"pricing\":{\"pricing_type\":\"pay_now\"}}"

OpaqueMealOnly == "{\"meal_plan\":{\"description\":\"Half board\"}}"

\* JSON.parse(opaque) on the payloads of the model, reduced to the two
\* members the formatters read; ok = FALSE: JSON.parse throws SyntaxError
JsonParse(opq) ==
    CASE opq = OpaquePayLater ->
            [ok |-> TRUE, meal_plan |-> "Breakfast", pricing_type |-> "pay_later"]
      [] opq = OpaquePayNow ->
            [ok |-> TRUE, meal_plan |-> Undefined, pricing_type |-> "pay_now"]
      [] opq = OpaqueMealOnly ->
            [ok |-> TRUE, meal_plan |-> "Half board", pricing_type |-> Undefined]
      [] opq = "{}" ->
            [ok |-> TRUE, meal_plan |-> Undefined, pricing_type |-> Undefined]
      [] OTHER ->
            [ok |-> FALSE, meal_plan |-> Undefined, pricing_type |-> Undefined]

\* the sort key of a room: a.min_price ? Number(a.min_price.value) : Infinity
RoomPrice(room) ==
    IF "min_price" \in DOMAIN room THEN NumberOf(room.min_price.value)
    ELSE [k |-> "inf", n |-> 0]

\* the comparator (a, b) => priceA - priceB as Array.prototype.sort reads
\* it: a NaN difference (a NaN operand, or Infinity - Infinity) counts as 0
ComparePrices(a, b) ==
    CASE a.k = "nan" \/ b.k = "nan" -> 0
      [] a.k = "inf" /\ b.k = "inf" -> 0
      [] a.k = "inf" -> 1
      [] b.k = "inf" -> -1
      [] OTHER -> IF a.n < b.n THEN -1 ELSE IF a.n > b.n THEN 1 ELSE 0

\* the comparator is a consistent comparator for the rooms (ECMA-262,
\* Array.prototype.sort): its "equal" and "less" relations are transitive
ConsistentComparator(rooms) ==
    LET c(i, j) == ComparePrices(RoomPrice(rooms[i]), RoomPrice(rooms[j]))
        I == 1..Len(rooms)
    IN  \A i, j, k \in I :
            /\ (c(i, j) = 0 /\ c(j, k) = 0) => c(i, k) = 0
            /\ (c(i, j) < 0 /\ c(j, k) < 0) => c(i, k) < 0
            /\ (c(i, j) = 0 /\ c(j, k) < 0) => c(i, k) < 0
            /\ (c(i, j) < 0 /\ c(j, k) = 0) => c(i, k) < 0

\* the orders [...rooms].sort(comparator) can produce, as sequences of
\* indices into rooms: the stable ascending order when the comparator is
\* consistent; otherwise the order is implementation-defined
SortOrders(rooms) ==
    LET I == 1..Len(rooms)
        c(i, j) == ComparePrices(RoomPrice(rooms[i]), RoomPrice(rooms[j]))
        perms == { p \in [I -> I] : \A a, b \in I : p[a] = p[b] => a = b }
    IN  IF ConsistentComparator(rooms)
        THEN { p \in perms : \A a, b \in I : a < b =>
                   \/ c(p[a], p[b]) < 0
                   \/ (c(p[a], p[b]) = 0 /\ p[a] < p[b]) }
        ELSE perms

\* cheapestRoom.rates?.find(r => r.rate_id === rate_id): index of the first
\* match, 0 when there is none
FindRateInRoom(room, rate_id) ==
    LET rates == Opt(room, "rates", << >>)
        M == { i \in 1..Len(rates) : rates[i].rate_id = rate_id }
    IN  IF M = {} THEN 0 ELSE CHOOSE i \in M : \A j \in M : i <= j

\* up to 3 image paths, the main photo first
SummaryImages(hotel) ==
    LET main == Opt(hotel, "main_photo", Undefined)
        first == IF main # Undefined /\ main # "" THEN << main >> ELSE << >>
        more == SelectSeq(Opt(hotel, "images", << >>), LAMBDA img : img.path # main)
        left == 3 - Len(first)
        kept == SubSeq(more, 1, IF Len(more) < left THEN Len(more) ELSE left)
    IN  first \o [i \in 1..Len(kept) |-> kept[i].path]

\* ranking: `${hotel.star_rating || "N/A"} stars`
Ranking(hotel) ==
    (IF Opt(hotel, "star_rating", 0) = 0 THEN "N/A" ELSE ToString(hotel.star_rating))
    \o " stars"

\* mutant: the placeholder is marked refundable
PlaceholderRate_Refundable(hotel) ==
    [room_id |-> "", room_name |-> "", rate_id |-> "", price |-> MinPriceText(hotel),
     is_refundable |-> TRUE, payment_type |-> "Pay Now"]

\* the initial lowestRateRoom of formatHotelToSummaryObject
PlaceholderRate(hotel) ==
    [room_id |-> "", room_name |-> "", rate_id |-> "", price |-> MinPriceText(hotel),
     is_refundable |-> FALSE, payment_type |-> "Pay Now"]

\* payment type of the summary's lowest rate: "Pay Now" unless the rate's
\* opaque payload parses; a parse error is caught and changes nothing
SummaryPaymentType(room, n) ==
    LET opq == IF n = 0 THEN Undefined ELSE Opt(room.rates[n], "opaque", Undefined)
    IN  IF opq # Undefined /\ opq # "" /\ JsonParse(opq).ok
        THEN IF JsonParse(opq).pricing_type = "pay_later" THEN "Pay Later" ELSE "Pay Now"
        ELSE "Pay Now"

\* lowestRateRoom built from the cheapest room
LowestRateOf(cheapestRoom) ==
    LET n == FindRateInRoom(cheapestRoom, cheapestRoom.lowest_rate.rate_id)
    IN  [room_id |-> cheapestRoom.room_id,
         room_name |-> Opt(cheapestRoom, "room_name", Undefined),
         rate_id |-> cheapestRoom.lowest_rate.rate_id,
         price |-> MinPriceText(cheapestRoom),
         is_refundable |-> IF n = 0 THEN FALSE
                           ELSE Opt(cheapestRoom.rates[n], "is_refundable", FALSE),
         payment_type |-> SummaryPaymentType(cheapestRoom, n)]

\* formatHotelToSummaryObject(hotel), order being the order the sort of the
\* rooms produced (a sequence of indices into hotel.rooms)
FormatHotelToSummaryObject(hotel, order) ==
    LET rooms == Opt(hotel, "rooms", << >>)
        lowestRateRoom ==
            IF Len(rooms) > 0 /\ "lowest_rate" \in DOMAIN rooms[order[1]]
            THEN LowestRateOf(rooms[order[1]])
            ELSE PlaceholderRate(hotel)
    IN  [id |-> hotel.id,
         name |-> hotel.name,
         ranking |-> Ranking(hotel),
         location |-> StrOr(Opt(hotel, "address", Undefined), "Unknown location"),
         price |-> "From " \o MinPriceText(hotel),
         images |-> SummaryImages(hotel),
         lowest_rate |-> lowestRateRoom]

\* policies.find(p => p.type === type): the first match, or undefined
FindPolicy(policies, type) ==
    LET M == { i \in 1..Len(policies) : policies[i].type = type }
    IN  IF M = {} THEN Undefined
        ELSE policies[CHOOSE i \in M : \A j \in M : i <= j].description

\* name.includes(needle) on the amenity names and the needles of the model
Includes(name, needle) ==
    CASE needle = "Unknown Facility" -> name \in {"Unknown Facility 7"}
      [] needle = "Unknown" -> name \in {"Unknown Facility 7", "Unknown"}

\* the names of the amenities whose name does not include the needle
AmenityNames(amenities, needle) ==
    LET kept == SelectSeq(amenities, LAMBDA a : ~Includes(a.name, needle))
    IN  [i \in 1..Len(kept) |-> kept[i].name]

\* one rate of the detail view
DetailRate(rate) ==
    LET description == Opt(rate, "description", Undefined)
        opq == Opt(rate, "opaque", Undefined)
        parsed == IF opq # Undefined /\ opq # "" THEN JsonParse(opq)
                  ELSE [ok |-> FALSE, meal_plan |-> Undefined, pricing_type |-> Undefined]
        mealPlan == IF parsed.ok THEN parsed.meal_plan ELSE Undefined
        paymentType ==
            IF parsed.ok /\ parsed.pricing_type # Undefined /\ parsed.pricing_type # ""
            THEN IF parsed.pricing_type = "pay_later" THEN "Pay Later" ELSE "Pay Now"
            ELSE StrOr(description, "Pay Now")
    IN  [rate_id |-> rate.rate_id,
         description |-> StrOr(description, ""),
         price |-> SellingPriceText(rate),
         is_refundable |-> Opt(rate, "is_refundable", FALSE),
         cancellation_policy |-> FindPolicy(Opt(rate, "policies", << >>), "cancellation"),
         meal_plan |-> mealPlan,
         payment_type |-> paymentType]

\* one room of the detail view, with all its rates
DetailRoom(room) ==
    LET images == Opt(room, "images", << >>)
        rates == Opt(room, "rates", << >>)
    IN  [room_id |-> room.room_id,
         room_name |-> Opt(room, "room_name", Undefined),
         description |-> Opt(room, "description", Undefined),
         images |-> [i \in 1..Len(images) |-> images[i].path],
         amenities |-> AmenityNames(Opt(room, "amenities", << >>), "Unknown"),
         max_occupancy |-> Opt(room, "max_occupancy", 0),
         rates |-> [i \in 1..Len(rates) |-> DetailRate(rates[i])]]

\* the hotel argument null / undefined
NullHotel == [null |-> TRUE]

UndefinedHotel == [undefined |-> TRUE]

\* formatHotelToDetailObject without the !hotel guard: reading a member of
\* null / undefined throws TypeError
FormatHotelToDetailObject_NoGuard(hotel) ==
    IF hotel \in {NullHotel, UndefinedHotel}
    THEN [threw |-> "TypeError"]
    ELSE [id |-> hotel.id, name |-> hotel.name]

\* formatHotelToDetailObject(hotel)
FormatHotelToDetailObject(hotel) ==
    IF hotel \in {NullHotel, UndefinedHotel}
    THEN [id |-> "unknown", name |-> "Unknown Hotel", ranking |-> "N/A",
          location |-> "N/A", facilities |-> << >>, images |-> << >>, rooms |-> << >>]
    ELSE LET main == Opt(hotel, "main_photo", Undefined)
             imgs == Opt(hotel, "images", << >>)
             paths == [i \in 1..Len(imgs) |-> imgs[i].path]
             images == IF main # Undefined /\ main # ""
                          /\ \A i \in 1..Len(paths) : paths[i] # main
                       THEN << main >> \o paths ELSE paths
             policies == Opt(hotel, "policies", << >>)
             rooms == Opt(hotel, "rooms", << >>)
         IN  [id |-> hotel.id,
              name |-> hotel.name,
              ranking |-> Ranking(hotel),
              location |-> StrOr(Opt(hotel, "address", Undefined), "Unknown location"),
              description |-> Opt(hotel, "description", Undefined),
              facilities |-> AmenityNames(hotel.amenities, "Unknown Facility"),
              images |-> images,
              check_in |-> FindPolicy(policies, "check_in"),
              check_out |-> FindPolicy(policies, "check_out"),
              rooms |-> [i \in 1..Len(rooms) |-> DetailRoom(rooms[i])]]

\* ------------------------------------------------------------------------
\* Hotel records given to the formatters
\* ------------------------------------------------------------------------
\* rooms per hotel
MaxRooms == 3

\* the rooms given to the formatters, with their rates
FormatterRooms ==
    LET
        RatePayLater ==
            MkRate("r1", OpaquePayLater)
            @@ [description |-> "Flexible rate", is_refundable |-> TRUE,
                selling_price |-> MkMoney(Num(80), "EUR"),
                policies |-> << [type |-> "cancellation", description |-> "Free until 18:00"] >>]

        \* the opaque payload is not JSON; the rate has a description
        RateBroken ==
            MkRate("r2", "{not json")
            @@ [description |-> "Breakfast included", is_refundable |-> TRUE,
                selling_price |-> MkMoney(Str("95"), "")]

        \* the opaque payload is not JSON; the rate has no description
        RateBrokenPlain == MkRate("r3", "opq-A1")

        RateEmptyJson == MkRate("r4", "{}") @@ [description |-> "Room only"]

        \* a rate without opaque payload
        RateNoOpaque ==
            [rate_id |-> "r5", provider_id |-> "prov", check_in_date |-> "2025-06-25",
             check_out_date |-> "2025-06-26", selling_price |-> MkMoney(Num(0), "GBP")]

        RatePayNow == MkRate("r6", OpaquePayNow) @@ [description |-> "Prepaid"]

        RateMealOnly == MkRate("r7", OpaqueMealOnly) @@ [description |-> "Half board rate"]

        RoomCheap ==
            [room_id |-> "f1", room_name |-> "Single", min_price |-> MkMoney(Num(80), "EUR"),
             lowest_rate |-> [rate_id |-> "r1"], rates |-> << RatePayLater >>,
             amenities |-> << [name |-> "Wifi"], [name |-> "Unknown"] >>,
             images |-> << [path |-> "f1.jpg"] >>, max_occupancy |-> 1]

        \* the price is a numeric string; the lowest rate is the second rate
        RoomMid ==
            [room_id |-> "f2", room_name |-> "Double", min_price |-> MkMoney(Str("95"), "EUR"),
             lowest_rate |-> [rate_id |-> "r2"], rates |-> << RateBrokenPlain, RateBroken >>]

        \* the price is not numeric
        RoomOnRequest ==
            [room_id |-> "f3", room_name |-> "Suite",
             min_price |-> MkMoney(Str("on request"), "EUR"),
             lowest_rate |-> [rate_id |-> "r4"], rates |-> << RateEmptyJson, RateMealOnly >>]

        \* no price; the lowest rate is not among the rates
        RoomNoPrice ==
            [room_id |-> "f4", room_name |-> "Twin",
             lowest_rate |-> [rate_id |-> "r9"], rates |-> << RateNoOpaque >>]

        RoomDear ==
            [room_id |-> "f5", room_name |-> "Loft", min_price |-> MkMoney(Num(120), ""),
             lowest_rate |-> [rate_id |-> "r6"], rates |-> << RatePayNow >>]
    IN  {RoomCheap, RoomMid, RoomOnRequest, RoomNoPrice, RoomDear}

\* a hotel record without rooms and without min_price
HotelD ==
    [id |-> 7, name |-> "Delta", star_rating |-> 4, address |-> "1 Quay",
     main_photo |-> "main.jpg",
     images |-> << [path |-> "a.jpg"], [path |-> "main.jpg"], [path |-> "b.jpg"],
                   [path |-> "c.jpg"] >>,
     amenities |-> << [name |-> "Pool"], [name |-> "Unknown Facility 7"] >>,
     policies |-> << [type |-> "check_in", description |-> "15:00"],
                     [type |-> "check_out", description |-> "11:00"] >>]

\* the hotel records given to the formatters. HotelPrices is hotel.min_price
\* when given: a price, or one with a falsy value and currency; RoomLists are
\* the room lists of up to MaxRooms rooms
FormatterHotels ==
    LET HotelPrices == { MkMoney(Num(150), "EUR"), MkMoney(Num(0), "") }
        RoomLists == UNION { [1..n -> FormatterRooms] : n \in 0..MaxRooms }
    IN  {HotelD}
        \cup { HotelD @@ [min_price |-> m] : m \in HotelPrices }
        \cup { HotelD @@ [rooms |-> rs] : rs \in RoomLists }
        \cup { HotelD @@ [rooms |-> rs, min_price |-> m] :
                   rs \in RoomLists, m \in HotelPrices }

\* ------------------------------------------------------------------------
\* State
\* ------------------------------------------------------------------------
VARIABLES
    hotels,              \* session.hotels: key -> raw hotel record
    placeSuggestions,    \* session.placeSuggestions
    confirmedPlace,      \* session.confirmedPlace (NullPlace: null)
    pc,                  \* where the running tool call is suspended
    op,                  \* the running tool
    params,              \* its parameters
    quoteRequest,        \* bookHotel: quoteRequest
    scheduleResponse,    \* bookHotel: scheduleResponse
    availabilityResult,  \* searchHotels: availabilityResult
    quoteId,             \* bookHotel: quoteId
    quoteStatus,         \* poll loop: quoteStatus
    quoteResult,         \* poll loop: quoteResult
    attempts,            \* poll loop: attempts
    placeToUse,          \* searchHotels: placeToUse
    result,              \* what the tool call returned or threw
    calls,               \* Gateway calls and delays of the running call
    lastDelay,           \* interval of the last delay taken
    lastPull,            \* last quote-pull response of the running call
    onlyProcessing,      \* every quote-pull response so far said "processing"
    priorOnlyProcessing, \* the same, of the responses before the last one
    terminalSeen,        \* a response with status success/failed was received
    pullsAfterTerminal,  \* quote-pull calls issued after such a response
    pre,                 \* the session store when the running call started
    linkLog,             \* quote id -> the (status, payment_link) pairs returned for it
    context,             \* session.language, conversation_id, market, currency, ...
    requestBody,         \* body of the availability request of the running call
    uuids,               \* number of uuidv4() values generated so far
    fetched,             \* key -> record last returned by an availability call
                         \* since the session was created
    dropped,             \* keys that a createSession call discarded
    fmtHotel,            \* formatter run: the hotel record given
    fmtView,             \* formatter run: the view returned
    autocompleteResult,  \* autocompletePlaces / createSession: autocompleteResult
    lastFetch,           \* what the availability request of the running call met
    earlier,             \* a second tool call in flight beside the running one
    counters,            \* UnifiedMetrics.counters, for one metric key
    histograms,          \* UnifiedMetrics.histograms: number of values held
    exporting,           \* the exportMetrics calls awaiting their fetch
    increments,          \* number of counter increments made so far
    pending,             \* the increments folded into the counter entry
    delivered            \* increment -> number of successful exports carrying it

session == <<hotels, placeSuggestions, confirmedPlace, context>>

locals == <<quoteRequest, scheduleResponse, availabilityResult, quoteId, quoteStatus,
            quoteResult, attempts, placeToUse, requestBody, autocompleteResult>>

sessionGhost == <<uuids, fetched, dropped, lastFetch>>

formatterRun == <<fmtHotel, fmtView>>

telemetry == <<counters, histograms, exporting, increments, pending, delivered>>

pollGhost == <<lastPull, onlyProcessing, priorOnlyProcessing, terminalSeen, pullsAfterTerminal>>

vars == <<hotels, placeSuggestions, confirmedPlace, pc, op, params, quoteRequest,
          scheduleResponse, availabilityResult, quoteId, quoteStatus, quoteResult,
          attempts, placeToUse, result, calls, lastDelay, lastPull, onlyProcessing,
          priorOnlyProcessing, terminalSeen, pullsAfterTerminal, pre, linkLog,
          context, requestBody, uuids, fetched, dropped, fmtHotel, fmtView,
          autocompleteResult, lastFetch, earlier, counters, histograms, exporting,
          increments, pending, delivered>>

\* session.hotels = {}
EmptyMap == [k \in {} |-> HotelC]

NoParams == [tool |-> "none"]

NoResult == [kind |-> "none"]

\* the Gateway calls of the running tool call: how many of each kind were
\* sent, and whether a quote-pull call has been answered
NoCalls == [schedule |-> 0, pull |-> 0, availability |-> 0, autocomplete |-> 0,
            delay |-> 0, answered |-> FALSE]

\* the context fields of the session as state.ts initialises them
InitialContext ==
    [language |-> "en", conversation_id |-> Undefined, user_ip_address |-> Undefined,
     market |-> Undefined, currency |-> Undefined, country_code |-> Undefined]

\* no availability request built
NoRequestBody == [location |-> [latitude |-> "", longitude |-> ""], limit |-> 0]

\* no autocomplete response received
NoAutocomplete == [ok |-> FALSE, predictions |-> << [place_id |-> "none"] >>]

\* no formatter input / output
NoView == [kind |-> "none"]

\* no searchHotels call in flight beside the running call
NoEarlier == [pc |-> "none"]

Snapshot == [hotels |-> hotels, placeSuggestions |-> placeSuggestions,
             confirmedPlace |-> confirmedPlace, context |-> context]

NoSnapshot == [hotels |-> EmptyMap, placeSuggestions |-> << >>,
               confirmedPlace |-> NullPlace, context |-> InitialContext]

GatewayCalls == calls.schedule + calls.pull + calls.availability + calls.autocomplete

\* UnifiedMetrics after construction: both maps empty, no export in flight
NoExport == [active |-> FALSE]

NoTelemetry ==
    /\ counters = [present |-> FALSE, value |-> 0]
    /\ histograms = 0
    /\ exporting = [origin \in {"timer", "record"} |-> NoExport]
    /\ increments = 0
    /\ pending = {}
    /\ delivered = [i \in 1..MaxRecords |-> 0]

\* the state between two tool calls
IdleLocals ==
    /\ quoteRequest = NoRequest
    /\ scheduleResponse = NoSchedule
    /\ availabilityResult = NoAvailability
    /\ quoteId = Undefined
    /\ quoteStatus = Undefined
    /\ quoteResult = NoQuote
    /\ attempts = 0
    /\ placeToUse = NullPlace
    /\ requestBody = NoRequestBody
    /\ autocompleteResult = NoAutocomplete
    /\ result = NoResult
    /\ calls = NoCalls
    /\ lastDelay = 0
    /\ lastPull = NoPull
    /\ onlyProcessing = TRUE
    /\ priorOnlyProcessing = TRUE
    /\ terminalSeen = FALSE
    /\ pullsAfterTerminal = 0
    /\ pre = NoSnapshot

\* export const session = { hotels: {}, placeSuggestions: [], confirmedPlace: null }
Init ==
    /\ hotels = EmptyMap
    /\ placeSuggestions = << >>
    /\ confirmedPlace = NullPlace
    /\ context = InitialContext
    /\ pc = "idle"
    /\ op = "none"
    /\ params = NoParams
    /\ IdleLocals
    /\ linkLog = [q \in QuoteIds |-> {}]
    /\ uuids = 0
    /\ fetched = EmptyMap
    /\ dropped = {}
    /\ lastFetch = NoFetch
    /\ fmtHotel = NullHotel
    /\ fmtView = NoView
    /\ earlier = NoEarlier
    /\ NoTelemetry

\* ------------------------------------------------------------------------
\* bookHotel
\* ------------------------------------------------------------------------
\* the top of the while loop, the first quote-pull being sent without a delay
PollLoopHead_FirstPollAtOnce(variant, status, qres, n) ==
    IF PollContinues(variant, status, n)
    THEN /\ attempts' = n + 1
         /\ pc' = IF n = 0 THEN "pull" ELSE "delay"
         /\ result' = result
    ELSE /\ attempts' = n
         /\ pc' = "done"
         /\ result' = PollFinished(variant, quoteId', status, qres)

\* the top of the while loop with the given locals: either the next
\* iteration starts (attempts++, then the delay), or the loop is left and
\* the tool call returns
PollLoopHead(variant, status, qres, n) ==
    IF PollContinues(variant, status, n)
    THEN /\ attempts' = n + 1
         /\ pc' = "delay"
         /\ result' = result
    ELSE /\ attempts' = n
         /\ pc' = "done"
         /\ result' = PollFinished(variant, quoteId', status, qres)

\* bookHotel(params) up to its first await: the session lookups, and the
\* quote-schedule request when hotel and rate resolve
BookHotel(variant, hotel_id, rate_id) ==
    /\ pc = "idle"
    /\ op' = "bookHotel"
    /\ params' = [tool |-> "bookHotel", variant |-> variant,
                  hotel_id |-> hotel_id, rate_id |-> rate_id]
    /\ pre' = Snapshot
    /\ IF hotel_id \notin DOMAIN hotels
       THEN /\ result' = ErrorReturn(variant, HotelNotFoundText(hotel_id))
            /\ pc' = "done"
            /\ UNCHANGED <<quoteRequest, calls>>
       ELSE LET hotel == hotels[hotel_id]
                f == FindRate(hotel, rate_id)
            IN  IF ~f.found
                THEN /\ result' = ErrorReturn(variant, RateNotFoundText(hotel_id, rate_id))
                     /\ pc' = "done"
                     /\ UNCHANGED <<quoteRequest, calls>>
                ELSE /\ quoteRequest' =
                            QuoteRequest(variant, hotel, hotel.rooms[f.room].rates[f.rate])
                     /\ calls' = [calls EXCEPT !.schedule = @ + 1]
                     /\ pc' = "schedule"
                     /\ UNCHANGED result
    /\ UNCHANGED <<session, scheduleResponse, availabilityResult, quoteId, quoteStatus,
                   quoteResult, attempts, placeToUse, requestBody, lastDelay, pollGhost,
                   linkLog, sessionGhost, formatterRun, earlier, autocompleteResult,
                   telemetry>>

\* bookHotel of the standard server: the function body is a single return
BookHotelStandard(hotel_id, rate_id) ==
    /\ pc = "idle"
    /\ op' = "bookHotelStandard"
    /\ params' = [tool |-> "bookHotelStandard", hotel_id |-> hotel_id, rate_id |-> rate_id]
    /\ pre' = Snapshot
    /\ result' = [kind |-> "return", status |-> "error"]
    /\ pc' = "done"
    /\ UNCHANGED <<session, quoteRequest, scheduleResponse, availabilityResult, quoteId,
                   quoteStatus, quoteResult, attempts, placeToUse, requestBody, calls,
                   lastDelay, pollGhost, linkLog, sessionGhost, formatterRun, earlier,
                   autocompleteResult, telemetry>>

\* the quote-schedule call returns: the early return when it failed or
\* carries no quote id, else the poll loop is entered
ScheduleReturns(resp) ==
    /\ pc = "schedule"
    /\ scheduleResponse' = resp
    /\ LET variant == params.variant
           id == ScheduledQuoteId(variant, resp)
       IN  IF id = Undefined
           THEN /\ result' = ErrorReturn(variant, "Failed to schedule quote. Please try again later.")
                /\ pc' = "done"
                /\ UNCHANGED <<quoteId, quoteStatus, quoteResult, attempts>>
           ELSE /\ quoteId' = id
                /\ quoteStatus' = "processing"
                /\ quoteResult' = NoQuote
                /\ PollLoopHead(variant, "processing", NoQuote, 0)
    /\ UNCHANGED <<session, op, params, quoteRequest, availabilityResult, placeToUse,
                   requestBody, calls, lastDelay, pollGhost, pre, linkLog, sessionGhost,
                   formatterRun, earlier, autocompleteResult, telemetry>>

\* the delay step of a poll loop that drops the hotel being booked from the
\* session while the quote is pending
DelayElapses_EvictsHotel ==
    /\ pc = "delay"
    /\ calls.delay < MaxDelays
    /\ calls' = [calls EXCEPT !.delay = @ + 1, !.pull = @ + 1]
    /\ lastDelay' = PollInterval(params.variant)
    /\ pullsAfterTerminal' = pullsAfterTerminal + (IF terminalSeen THEN 1 ELSE 0)
    /\ pc' = "pull"
    /\ hotels' = [k \in DOMAIN hotels \ {params.hotel_id} |-> hotels[k]]
    /\ UNCHANGED <<placeSuggestions, confirmedPlace, context, op, params, locals, result,
                   lastPull, onlyProcessing, priorOnlyProcessing, terminalSeen, pre,
                   linkLog, sessionGhost, formatterRun, earlier, telemetry>>

\* the setTimeout of the loop body elapses and the quote-pull request is sent
\* (a call is followed for MaxDelays delays at most)
DelayElapses ==
    /\ pc = "delay"
    /\ calls.delay < MaxDelays
    /\ calls' = [calls EXCEPT !.delay = @ + 1, !.pull = @ + 1]
    /\ lastDelay' = PollInterval(params.variant)
    /\ pullsAfterTerminal' = pullsAfterTerminal + (IF terminalSeen THEN 1 ELSE 0)
    /\ pc' = "pull"
    /\ UNCHANGED <<session, op, params, locals, result, lastPull, onlyProcessing,
                   priorOnlyProcessing, terminalSeen, pre, linkLog, sessionGhost,
                   formatterRun, earlier, telemetry>>

\* the quote-pull call returns: the rest of the loop body
PullReturns(resp) ==
    /\ pc = "pull"
    /\ lastPull' = resp
    /\ priorOnlyProcessing' = onlyProcessing
    /\ onlyProcessing' = (onlyProcessing /\ resp.ok /\ resp.status = "processing")
    /\ terminalSeen' = (terminalSeen \/ (resp.ok /\ resp.status \in {"success", "failed"}))
    /\ calls' = [calls EXCEPT !.answered = @ \/ resp.ok]
    /\ UNCHANGED quoteId
    /\ LET variant == params.variant
       IN  IF ~resp.ok
           THEN \* if (!pullResponse) continue
                /\ quoteStatus' = StatusAfterPull(quoteStatus, resp)
                /\ UNCHANGED quoteResult
                /\ PollLoopHead(variant, quoteStatus', quoteResult, attempts)
           ELSE /\ quoteStatus' = StatusAfterPull(quoteStatus, resp)
                /\ IF quoteStatus' = "success"
                   THEN \* quoteResult = pullResponse.quote; break
                        /\ quoteResult' = resp.quote
                        /\ attempts' = attempts
                        /\ pc' = "done"
                        /\ result' = PollFinished(variant, quoteId, quoteStatus', resp.quote)
                   ELSE IF quoteStatus' = "failed"
                   THEN /\ UNCHANGED <<quoteResult, attempts>>
                        /\ pc' = "done"
                        /\ result' = FailedOutcome(variant, resp)
                   ELSE /\ UNCHANGED quoteResult
                        /\ PollLoopHead(variant, quoteStatus', quoteResult, attempts)
    /\ UNCHANGED <<session, op, params, quoteRequest, scheduleResponse,
                   availabilityResult, placeToUse, requestBody, lastDelay,
                   pullsAfterTerminal, pre, linkLog, sessionGhost, formatterRun, earlier,
                   autocompleteResult, telemetry>>

\* ------------------------------------------------------------------------
\* searchHotels
\* ------------------------------------------------------------------------
\* what searchHotels returns after the availability call returned resp
SearchResult(resp, place) ==
    CASE AvailabilityStatus(resp) = "error" ->
            [kind |-> "return", status |-> "error",
             message |-> "Failed to retrieve hotel availability data. Please try again later."]
      [] AvailabilityStatus(resp) = "empty" ->
            [kind |-> "return", status |-> "empty",
             message |-> "No hotels found matching your criteria. Please try different search parameters."]
      [] OTHER ->
            [kind |-> "return", status |-> "success",
             total_hotels |-> resp.total,
             results_count |-> Len(resp.hotels),
             selected_place |-> place.place_id,
             hotels |-> [i \in 1..Len(resp.hotels) |-> resp.hotels[i].id]]

\* the closing sentence of the message of a page of hotels
MoreText(has_more) ==
    IF has_more
    THEN "If user need more or you think need more hotel to make the recommendation, you can use the load more tools to retrieve more hotel from the server."
    ELSE "No more hotel can be retrieve from the server, recommand some hotels from existing hotel list and help the user to change the search query."

\* what the standard searchHotels returns
SearchStandardResult(resp) ==
    CASE AvailabilityStatus(resp) = "error" ->
            [kind |-> "return", status |-> "error",
             message |-> "Failed to retrieve hotel availability data. Please try again later."]
      [] AvailabilityStatus(resp) = "empty" ->
            [kind |-> "return", status |-> "empty",
             message |-> "No hotels found matching your criteria. Please try different search parameters."]
      [] OTHER ->
            [kind |-> "return", status |-> "success",
             total_hotels |-> resp.total,
             hotels |-> [i \in 1..Len(resp.hotels) |-> resp.hotels[i].id],
             session_id |-> resp.session_id,
             message |-> "Got " \o ToString(Len(resp.hotels))
                         \o " available hotels by search, please make the recommendation according to user's query, especially according to user's query."
                         \o MoreText(Opt(resp, "has_more", FALSE))]

\* searchHotels of the session-place servers up to its await: the place is
\* resolved (and confirmed) first; without a place no request is sent
SearchHotels(place_id) ==
    /\ pc = "idle"
    /\ op' = "searchHotels"
    /\ params' = [tool |-> "searchHotels", place_id |-> place_id]
    /\ pre' = Snapshot
    /\ LET selectedPlace == SelectedPlace(placeSuggestions, place_id)
           use == PlaceToUse(selectedPlace, confirmedPlace)
       IN  /\ placeToUse' = use
           /\ confirmedPlace' = IF selectedPlace # NullPlace THEN selectedPlace
                                ELSE confirmedPlace
           /\ IF use = NullPlace
              THEN /\ result' = [kind |-> "return", status |-> "error",
                                 message |-> "No place available. Please use the create-session tool first to find and confirm a location."]
                   /\ pc' = "done"
                   /\ UNCHANGED <<calls, requestBody>>
              ELSE /\ requestBody' = AvailabilityRequest(use.latitude, use.longitude)
                   /\ calls' = [calls EXCEPT !.availability = @ + 1]
                   /\ pc' = "availability"
                   /\ UNCHANGED result
    /\ UNCHANGED <<hotels, placeSuggestions, context, quoteRequest, scheduleResponse,
                   availabilityResult, quoteId, quoteStatus, quoteResult, attempts,
                   lastDelay, pollGhost, linkLog, sessionGhost, formatterRun, earlier, autocompleteResult,
                   telemetry>>

\* searchHotels of the coordinate-based (standard) server up to its await
SearchHotelsStandard(latitude, longitude) ==
    /\ pc = "idle"
    /\ op' = "searchHotelsStandard"
    /\ params' = [tool |-> "searchHotelsStandard", latitude |-> latitude,
                  longitude |-> longitude]
    /\ pre' = Snapshot
    /\ requestBody' = AvailabilityRequest(latitude, longitude)
    /\ calls' = [calls EXCEPT !.availability = @ + 1]
    /\ pc' = "availability"
    /\ UNCHANGED <<session, quoteRequest, scheduleResponse, availabilityResult, quoteId,
                   quoteStatus, quoteResult, attempts, placeToUse, result, lastDelay,
                   pollGhost, linkLog, sessionGhost, formatterRun, earlier, autocompleteResult,
                   telemetry>>

\* loadMoreHotels handing back no token and no word on further pages
LoadMoreResult_DropsToken(resp) ==
    CASE AvailabilityStatus(resp) = "error" ->
            [kind |-> "return", status |-> "error",
             message |-> "Failed to retrieve hotel availability data. Please try again later."]
      [] AvailabilityStatus(resp) = "empty" ->
            [kind |-> "return", status |-> "empty",
             message |-> "No hotels found matching your criteria. Please try different search parameters."]
      [] OTHER ->
            [kind |-> "return", status |-> "success",
             total_hotels |-> resp.total,
             hotels |-> [i \in 1..Len(resp.hotels) |-> resp.hotels[i].id],
             session_id |-> Undefined,
             message |-> "Got " \o ToString(Len(resp.hotels))
                         \o " additional available hotels by load more, please make the recommendation according to user's query, especially according to user's query."]

\* what loadMoreHotels returns
LoadMoreResult(resp) ==
    CASE AvailabilityStatus(resp) = "error" ->
            [kind |-> "return", status |-> "error",
             message |-> "Failed to retrieve hotel availability data. Please try again later."]
      [] AvailabilityStatus(resp) = "empty" ->
            [kind |-> "return", status |-> "empty",
             message |-> "No hotels found matching your criteria. Please try different search parameters."]
      [] OTHER ->
            [kind |-> "return", status |-> "success",
             total_hotels |-> resp.total,
             hotels |-> [i \in 1..Len(resp.hotels) |-> resp.hotels[i].id],
             session_id |-> resp.session_id,
             message |-> "Got " \o ToString(Len(resp.hotels))
                         \o " additional available hotels by load more, please make the recommendation according to user's query, especially according to user's query."
                         \o MoreText(Opt(resp, "has_more", FALSE))]

\* loadMoreHotels up to its await
LoadMoreHotels(session_id) ==
    /\ pc = "idle"
    /\ op' = "loadMoreHotels"
    /\ params' = [tool |-> "loadMoreHotels", session_id |-> session_id]
    /\ pre' = Snapshot
    /\ requestBody' = LoadMoreRequest(session_id)
    /\ calls' = [calls EXCEPT !.availability = @ + 1]
    /\ pc' = "availability"
    /\ UNCHANGED <<session, quoteRequest, scheduleResponse, availabilityResult, quoteId,
                   quoteStatus, quoteResult, attempts, placeToUse, result, lastDelay,
                   pollGhost, linkLog, sessionGhost, formatterRun, earlier, autocompleteResult,
                   telemetry>>

\* the records the availability responses have returned so far, the latest
\* per key: the list is gone through from its first hotel to its last
RECURSIVE Recorded(_, _)
Recorded(log, list) ==
    IF Len(list) = 0 THEN log
    ELSE LET h == Head(list)
             k == ToString(h.id)
         IN  Recorded([x \in (DOMAIN log) \cup {k} |-> IF x = k THEN h ELSE log[x]],
                      Tail(list))

\* the availability call returns: early returns, or the upsert and the list
AvailabilityReturns(fetch) ==
    /\ pc = "availability"
    /\ lastFetch' = fetch
    /\ LET resp == MakeApiRequest(fetch, [ok |-> FALSE, hotels |-> << >>, total |-> 0,
                                          session_id |-> Undefined])
       IN  /\ availabilityResult' = resp
           /\ hotels' = HotelsAfterAvailability(hotels, resp)
           /\ result' = CASE op = "searchHotels" -> SearchResult(resp, placeToUse)
                          [] op = "loadMoreHotels" -> LoadMoreResult(resp)
                          [] OTHER -> SearchStandardResult(resp)
           /\ fetched' = IF resp.ok THEN Recorded(fetched, resp.hotels) ELSE fetched
    /\ pc' = "done"
    /\ UNCHANGED <<placeSuggestions, confirmedPlace, context, op, params, quoteRequest,
                   scheduleResponse, quoteId, quoteStatus, quoteResult, attempts,
                   placeToUse, requestBody, calls, lastDelay, pollGhost, pre, linkLog,
                   uuids, dropped, formatterRun, earlier, autocompleteResult, telemetry>>

\* ------------------------------------------------------------------------
\* getHotelDetails (session-cache variant)
\* ------------------------------------------------------------------------
\* mutant: a hotel that is not cached is looked up at the Gateway
GetHotelDetails_FetchesOnMiss(hotel_id) ==
    /\ pc = "idle"
    /\ op' = "getHotelDetails"
    /\ params' = [tool |-> "getHotelDetails", hotel_id |-> hotel_id]
    /\ pre' = Snapshot
    /\ pc' = "done"
    /\ IF hotel_id \in DOMAIN hotels
       THEN /\ result' = [kind |-> "return", status |-> "success",
                          hotel |-> FormatHotelToDetailObject(hotels[hotel_id])]
            /\ UNCHANGED calls
       ELSE /\ result' = [kind |-> "return", status |-> "error",
                          message |-> HotelNotFoundText(hotel_id)]
            /\ calls' = [calls EXCEPT !.availability = @ + 1]
    /\ UNCHANGED <<session, locals, lastDelay, pollGhost, linkLog, sessionGhost,
                   formatterRun, earlier, telemetry>>

\* getHotelDetails: no await
GetHotelDetails(hotel_id) ==
    /\ pc = "idle"
    /\ op' = "getHotelDetails"
    /\ params' = [tool |-> "getHotelDetails", hotel_id |-> hotel_id]
    /\ pre' = Snapshot
    /\ pc' = "done"
    /\ result' = IF hotel_id \in DOMAIN hotels
                 THEN [kind |-> "return", status |-> "success",
                       action |-> "Don't display the result by text, generate a html page with the hotel details to show in Artifact to the user",
                       hotel |-> FormatHotelToDetailObject(hotels[hotel_id])]
                 ELSE [kind |-> "return", status |-> "error",
                       message |-> HotelNotFoundText(hotel_id)]
    /\ UNCHANGED <<session, locals, calls, lastDelay, pollGhost, linkLog, sessionGhost,
                   formatterRun, earlier, telemetry>>

\* what fetch() and response.json() can do on the hotel request of the
\* standard getHotelDetails
DetailFetches ==
    { [kind |-> "network error", status |-> 0, json |-> FALSE, body |-> NullHotel],
      [kind |-> "http", status |-> 404, json |-> TRUE, body |-> NullHotel],
      [kind |-> "http", status |-> 200, json |-> FALSE, body |-> NullHotel],
      [kind |-> "http", status |-> 200, json |-> TRUE, body |-> HotelB] }

\* getHotelDetails of the standard server up to its await
GetHotelDetailsStandard(session_id, hotel_id) ==
    /\ pc = "idle"
    /\ op' = "getHotelDetailsStandard"
    /\ params' = [tool |-> "getHotelDetailsStandard", session_id |-> session_id,
                  hotel_id |-> hotel_id]
    /\ pre' = Snapshot
    /\ calls' = [calls EXCEPT !.availability = @ + 1]
    /\ pc' = "details"
    /\ UNCHANGED <<session, locals, result, lastDelay, pollGhost, linkLog, sessionGhost,
                   formatterRun, earlier, telemetry>>

\* the hotel request returns: whatever makeApiRequest hands back is formatted
HotelDetailsReturn(fetch) ==
    /\ pc = "details"
    /\ lastFetch' = fetch
    /\ LET hotelAvailability == MakeApiRequest(fetch, NullHotel)
       IN  result' = [kind |-> "return", status |-> "success",
                      hotel |-> FormatHotelToDetailObject(hotelAvailability),
                      session_id |-> params.session_id,
                      message |-> "In this hotel detail response, the user can find all the information and all the available rate."]
    /\ pc' = "done"
    /\ UNCHANGED <<session, op, params, locals, calls, lastDelay, pollGhost, pre, linkLog,
                   uuids, fetched, dropped, formatterRun, earlier, telemetry>>

\* ------------------------------------------------------------------------
\* autocompletePlaces / confirmPlace
\* ------------------------------------------------------------------------
\* mutant: the first prediction is always confirmed, as createSession does
ConfirmedAfterAutocomplete_FirstPrediction(predictions, confirmed) == predictions[1]

\* session.confirmedPlace after autocompletePlaces stored a non-empty list
\* of predictions: a single prediction is confirmed automatically
ConfirmedAfterAutocomplete(predictions, confirmed) ==
    IF Len(predictions) = 1 THEN predictions[1] ELSE confirmed

\* autocompletePlaces up to its await
AutocompletePlaces ==
    /\ pc = "idle"
    /\ op' = "autocompletePlaces"
    /\ params' = [tool |-> "autocompletePlaces"]
    /\ pre' = Snapshot
    /\ calls' = [calls EXCEPT !.autocomplete = @ + 1]
    /\ pc' = "autocomplete"
    /\ UNCHANGED <<session, locals, result, lastDelay, pollGhost, linkLog, sessionGhost,
                   formatterRun, earlier, telemetry>>

\* the autocomplete call returns
AutocompleteReturns(resp) ==
    /\ pc = "autocomplete"
    /\ op = "autocompletePlaces"
    /\ autocompleteResult' = resp
    /\ pc' = "done"
    /\ IF ~resp.ok
       THEN /\ result' = [kind |-> "return", status |-> "error",
                          message |-> "Failed to retrieve place suggestions. Please try again with a different query."]
            /\ UNCHANGED <<placeSuggestions, confirmedPlace>>
       ELSE IF Len(resp.predictions) = 0
       THEN /\ result' = [kind |-> "return", status |-> "empty",
                          message |-> "No places found matching your query. Please try a different search term."]
            /\ UNCHANGED <<placeSuggestions, confirmedPlace>>
       ELSE /\ placeSuggestions' = resp.predictions
            /\ confirmedPlace' = ConfirmedAfterAutocomplete(resp.predictions, confirmedPlace)
            /\ result' = [kind |-> "return",
                          places |-> [i \in 1..Len(resp.predictions) |->
                                         resp.predictions[i].place_id],
                          count |-> Len(resp.predictions),
                          message |-> IF Len(resp.predictions) = 1
                                      THEN "This place has been automatically selected for your search. You can now use the search-hotels tool to find hotels in this location."
                                      ELSE "Please use the confirm-place tool with the ID of the place you want to select."]
    /\ UNCHANGED <<hotels, context, op, params, quoteRequest, scheduleResponse,
                   availabilityResult, quoteId, quoteStatus, quoteResult, attempts,
                   placeToUse, requestBody, calls, lastDelay, pollGhost, pre, linkLog,
                   sessionGhost, formatterRun, earlier, telemetry>>

\* confirmPlace: no await
ConfirmPlace(place_id) ==
    /\ pc = "idle"
    /\ op' = "confirmPlace"
    /\ params' = [tool |-> "confirmPlace", place_id |-> place_id]
    /\ pre' = Snapshot
    /\ pc' = "done"
    /\ IF Len(placeSuggestions) = 0
       THEN /\ result' = [kind |-> "return", status |-> "error",
                          message |-> "No place suggestions available. Please use the autocomplete-place tool first."]
            /\ UNCHANGED confirmedPlace
       ELSE LET selectedPlace == FindPlace(placeSuggestions, place_id)
            IN  IF selectedPlace = NullPlace
                THEN /\ result' = [kind |-> "return", status |-> "error",
                                   message |-> "Place with ID " \o place_id \o " not found in the suggestions. Please use a valid place ID from the autocomplete results."]
                     /\ UNCHANGED confirmedPlace
                ELSE /\ confirmedPlace' = selectedPlace
                     /\ result' = [kind |-> "return", status |-> "success",
                                   place |-> selectedPlace.place_id,
                                   message |-> "Place confirmed. You can now use the search-hotels tool to find hotels in this location."]
    /\ UNCHANGED <<hotels, placeSuggestions, context, locals, calls, lastDelay,
                   pollGhost, linkLog, sessionGhost, formatterRun, earlier, telemetry>>

\* ------------------------------------------------------------------------
\* createSession
\* ------------------------------------------------------------------------
\* mutant: the reset leaves the cached hotels in place
SessionAfterReset_KeepsHotels(store, p, n) ==
    [hotels |-> store.hotels,
     placeSuggestions |-> << >>,
     confirmedPlace |-> NullPlace,
     context |->
         [language |-> StrOr(p.language, "en"),
          conversation_id |-> Uuid(n),
          user_ip_address |-> "127.0.0.1",
          market |-> DEFAULT_MARKET,
          currency |-> StrOr(p.currency, DEFAULT_CURRENCY),
          country_code |-> StrOr(p.country_code, DEFAULT_COUNTRY_CODE)]]

\* the reset that leaves the confirmed place in the session
SessionAfterReset_KeepsPlace(store, p, n) ==
    [hotels |-> [k \in {} |-> HotelC],
     placeSuggestions |-> << >>,
     confirmedPlace |-> store.confirmedPlace,
     context |->
         [language |-> StrOr(p.language, "en"),
          conversation_id |-> Uuid(n),
          user_ip_address |-> "127.0.0.1",
          market |-> DEFAULT_MARKET,
          currency |-> StrOr(p.currency, DEFAULT_CURRENCY),
          country_code |-> StrOr(p.country_code, DEFAULT_COUNTRY_CODE)]]

\* the session store after the first statements of createSession: every
\* field is reset, whatever params.place is; n numbers the uuid generated
SessionAfterReset(store, p, n) ==
    [hotels |-> [k \in {} |-> HotelC],
     placeSuggestions |-> << >>,
     confirmedPlace |-> NullPlace,
     context |->
         [language |-> StrOr(p.language, "en"),
          conversation_id |-> Uuid(n),
          user_ip_address |-> "127.0.0.1",
          market |-> DEFAULT_MARKET,
          currency |-> StrOr(p.currency, DEFAULT_CURRENCY),
          country_code |-> StrOr(p.country_code, DEFAULT_COUNTRY_CODE)]]

\* createSession up to its await: the reset, then the validation of place
CreateSession(p) ==
    /\ pc = "idle"
    /\ uuids < MaxSessions
    /\ op' = "createSession"
    /\ params' = [tool |-> "createSession", place |-> p.place, language |-> p.language,
                  currency |-> p.currency, country_code |-> p.country_code]
    /\ pre' = Snapshot
    /\ uuids' = uuids + 1
    /\ LET after == SessionAfterReset(Snapshot, p, uuids + 1)
       IN  /\ hotels' = after.hotels
           /\ placeSuggestions' = after.placeSuggestions
           /\ confirmedPlace' = after.confirmedPlace
           /\ context' = after.context
    /\ dropped' = dropped \cup DOMAIN hotels
    /\ fetched' = EmptyMap
    /\ IF p.place = Undefined \/ Trim(p.place) = ""
       THEN /\ result' = [kind |-> "return", status |-> "error",
                          message |-> "Place parameter is required for creating a session."]
            /\ pc' = "done"
            /\ UNCHANGED calls
       ELSE /\ calls' = [calls EXCEPT !.autocomplete = @ + 1]
            /\ pc' = "autocomplete"
            /\ UNCHANGED result
    /\ UNCHANGED <<locals, lastDelay, pollGhost, linkLog, formatterRun, earlier, lastFetch,
                   telemetry>>

\* the place lookup of createSession returns
CreateSessionLookupReturns(resp) ==
    /\ pc = "autocomplete"
    /\ op = "createSession"
    /\ autocompleteResult' = resp
    /\ pc' = "done"
    /\ IF ~resp.ok
       THEN /\ result' = [kind |-> "return", status |-> "error",
                          message |-> "Failed to retrieve place suggestions. Please try again with a different query."]
            /\ UNCHANGED <<placeSuggestions, confirmedPlace>>
       ELSE IF Len(resp.predictions) = 0
       THEN /\ result' = [kind |-> "return", status |-> "empty",
                          message |-> "No places found matching your query. Please try a different search term."]
            /\ UNCHANGED <<placeSuggestions, confirmedPlace>>
       ELSE /\ placeSuggestions' = resp.predictions
            /\ confirmedPlace' = resp.predictions[1]
            /\ result' = [kind |-> "return", status |-> "success",
                          session_created |-> TRUE,
                          selected_place |-> resp.predictions[1].place_id,
                          alternative_places |-> [i \in 1..Len(resp.predictions) |->
                                                     resp.predictions[i].place_id],
                          context |-> context]
    /\ UNCHANGED <<hotels, context, op, params, quoteRequest, scheduleResponse,
                   availabilityResult, quoteId, quoteStatus, quoteResult, attempts,
                   placeToUse, requestBody, calls, lastDelay, pollGhost, pre, linkLog,
                   sessionGhost, formatterRun, earlier, telemetry>>

\* the tool call's result has been delivered; the next call may start
Delivered ==
    /\ pc = "done"
    /\ pc' = "idle"
    /\ op' = "none"
    /\ params' = NoParams
    /\ quoteRequest' = NoRequest
    /\ scheduleResponse' = NoSchedule
    /\ availabilityResult' = NoAvailability
    /\ quoteId' = Undefined
    /\ quoteStatus' = Undefined
    /\ quoteResult' = NoQuote
    /\ attempts' = 0
    /\ placeToUse' = NullPlace
    /\ requestBody' = NoRequestBody
    /\ autocompleteResult' = NoAutocomplete
    /\ result' = NoResult
    /\ calls' = NoCalls
    /\ lastDelay' = 0
    /\ lastPull' = NoPull
    /\ onlyProcessing' = TRUE
    /\ priorOnlyProcessing' = TRUE
    /\ terminalSeen' = FALSE
    /\ pullsAfterTerminal' = 0
    /\ pre' = NoSnapshot
    /\ lastFetch' = NoFetch
    /\ UNCHANGED <<session, uuids, fetched, dropped, formatterRun, earlier, telemetry>>

Return == Delivered /\ UNCHANGED linkLog

\* Return, with the payment link of the delivered result put on record
ReturnLogged ==
    /\ Delivered
    /\ linkLog' = IF op = "bookHotel" /\ "payment_link" \in DOMAIN result
                  THEN [linkLog EXCEPT ![quoteId] =
                            @ \cup { <<result.status, result.payment_link>> }]
                  ELSE linkLog

Next ==
    \/ \E v \in BookVariants, h \in HotelIdParams, r \in RateIdParams : BookHotel(v, h, r)
    \/ \E resp \in ScheduleResponses : ScheduleReturns(resp)
    \/ DelayElapses
    \/ \E resp \in PullResponses : PullReturns(resp)
    \/ \E p \in PlaceIdParams : SearchHotels(p)
    \/ \E c \in Coordinates : SearchHotelsStandard(c[1], c[2])
    \/ \E f \in AvailabilityFetches : AvailabilityReturns(f)
    \/ AutocompletePlaces
    \/ \E resp \in AutocompleteResponses : AutocompleteReturns(resp)
    \/ \E p \in PlaceIdParams \ {Undefined} : ConfirmPlace(p)
    \/ Return

Spec == Init /\ [][Next]_vars

\* ------------------------------------------------------------------------
\* Booking alone, on a session that an earlier search has filled, with the
\* payment links of the delivered results on record
\* ------------------------------------------------------------------------
InitBooking ==
    /\ hotels = UpsertHotels(EmptyMap, << HotelA, HotelB >>)
    /\ placeSuggestions = << PlaceP1 >>
    /\ confirmedPlace = PlaceP1
    /\ context = InitialContext
    /\ pc = "idle"
    /\ op = "none"
    /\ params = NoParams
    /\ IdleLocals
    /\ linkLog = [q \in QuoteIds |-> {}]
    /\ uuids = 0
    /\ fetched = UpsertHotels(EmptyMap, << HotelA, HotelB >>)
    /\ dropped = {}
    /\ lastFetch = NoFetch
    /\ fmtHotel = NullHotel
    /\ fmtView = NoView
    /\ earlier = NoEarlier
    /\ NoTelemetry

NextBooking ==
    \/ \E h \in HotelIdParams, r \in RateIdParams : BookHotel("modular", h, r)
    \/ \E resp \in ScheduleResponses : ScheduleReturns(resp)
    \/ DelayElapses
    \/ \E resp \in PullResponses : PullReturns(resp)
    \/ ReturnLogged

SpecBooking == InitBooking /\ [][NextBooking]_vars

\* ------------------------------------------------------------------------
\* The session tools of the modular servers: createSession, the searches,
\* loadMoreHotels, getHotelDetails and bookHotel on one session store
\* ------------------------------------------------------------------------
\* rate ids given to bookHotel here
SessionRateIdParams == {"rB1", "zz"}

NextSession ==
    \/ \E p \in CreateSessionParams : CreateSession(p)
    \/ \E resp \in AutocompleteResponses : CreateSessionLookupReturns(resp)
    \/ \E p \in PlaceIdParams : SearchHotels(p)
    \/ \E c \in Coordinates : SearchHotelsStandard(c[1], c[2])
    \/ \E sid \in SessionIdParams : LoadMoreHotels(sid)
    \/ \E f \in AvailabilityFetches : AvailabilityReturns(f)
    \/ \E h \in HotelIdParams : GetHotelDetails(h)
    \/ \E h \in HotelIdParams, r \in SessionRateIdParams : BookHotel("modular", h, r)
    \/ \E h \in HotelIdParams, r \in SessionRateIdParams : BookHotelStandard(h, r)
    \/ \E sid \in SessionIdParams, h \in HotelIdParams : GetHotelDetailsStandard(sid, h)
    \/ \E f \in DetailFetches : HotelDetailsReturn(f)
    \/ \E resp \in ScheduleResponses : ScheduleReturns(resp)
    \/ DelayElapses
    \/ \E resp \in PullResponses : PullReturns(resp)
    \/ Return

SpecSession == Init /\ [][NextSession]_vars

\* ------------------------------------------------------------------------
\* The tools of the single-file servers that expose autocomplete-place and
\* confirm-place; their search-hotels takes no place_id
\* ------------------------------------------------------------------------
NextPlaces ==
    \/ AutocompletePlaces
    \/ \E resp \in AutocompleteResponses : AutocompleteReturns(resp)
    \/ \E p \in PlaceIdParams \ {Undefined} : ConfirmPlace(p)
    \/ SearchHotels(Undefined)
    \/ \E f \in AvailabilityFetches : AvailabilityReturns(f)
    \/ \E h \in HotelIdParams : GetHotelDetails(h)
    \/ Return

SpecPlaces == Init /\ [][NextPlaces]_vars

\* ------------------------------------------------------------------------
\* Booking by every server variant, each Gateway call and each delay of the
\* poll loop completing
\* ------------------------------------------------------------------------
NextPolling ==
    \/ \E v \in BookVariants, h \in HotelIdParams, r \in SessionRateIdParams :
           BookHotel(v, h, r)
    \/ \E resp \in ScheduleResponses : ScheduleReturns(resp)
    \/ DelayElapses
    \/ \E resp \in PullResponses : PullReturns(resp)
    \/ Return

SpecPolling ==
    /\ InitBooking
    /\ [][NextPolling]_vars
    /\ WF_vars(\E resp \in ScheduleResponses : ScheduleReturns(resp))
    /\ WF_vars(DelayElapses)
    /\ WF_vars(\E resp \in PullResponses : PullReturns(resp))

\* ------------------------------------------------------------------------
\* A searchHotels call in flight beside the running tool call: the server
\* starts a handler for each request it receives, and a handler gives way
\* to the others at each of its awaits
\* ------------------------------------------------------------------------
\* searchHotels up to its await, issued while earlier.pc = "none"; epoch is
\* the number of sessions created when the call was issued
SearchHotelsEarlier(place_id) ==
    /\ earlier.pc = "none"
    /\ LET selectedPlace == SelectedPlace(placeSuggestions, place_id)
           use == PlaceToUse(selectedPlace, confirmedPlace)
       IN  /\ confirmedPlace' = IF selectedPlace # NullPlace THEN selectedPlace
                                ELSE confirmedPlace
           /\ earlier' =
                 IF use = NullPlace
                 THEN [pc |-> "done", epoch |-> uuids, placeToUse |-> use,
                       returned |-> << >>,
                       result |-> [kind |-> "return", status |-> "error",
                                   message |-> "No place available. Please use the create-session tool first to find and confirm a location."]]
                 ELSE [pc |-> "availability", epoch |-> uuids, placeToUse |-> use,
                       returned |-> << >>, result |-> NoResult]
    /\ UNCHANGED <<hotels, placeSuggestions, context, pc, op, params, locals, result,
                   calls, lastDelay, pollGhost, pre, linkLog, sessionGhost, formatterRun,
                   telemetry>>

\* the availability call of the earlier searchHotels returns: the upsert
\* goes to session.hotels as it is at that moment
EarlierAvailabilityReturns(fetch) ==
    /\ earlier.pc = "availability"
    /\ LET resp == MakeApiRequest(fetch, [ok |-> FALSE, hotels |-> << >>, total |-> 0,
                                          session_id |-> Undefined])
       IN  /\ hotels' = HotelsAfterAvailability(hotels, resp)
           /\ earlier' = [earlier EXCEPT !.pc = "done",
                                         !.returned = resp.hotels,
                                         !.result = SearchResult(resp, earlier.placeToUse)]
           /\ fetched' = IF resp.ok THEN Recorded(fetched, resp.hotels) ELSE fetched
    /\ UNCHANGED <<placeSuggestions, confirmedPlace, context, pc, op, params, locals,
                   result, calls, lastDelay, pollGhost, pre, linkLog, uuids, dropped,
                   lastFetch, formatterRun, telemetry>>

\* the result of the earlier searchHotels is delivered
EarlierReturn ==
    /\ earlier.pc = "done"
    /\ earlier' = NoEarlier
    /\ UNCHANGED <<session, pc, op, params, locals, result, calls, lastDelay, pollGhost,
                   pre, linkLog, sessionGhost, formatterRun, telemetry>>

NextOverlap ==
    \/ \E p \in CreateSessionParams : CreateSession(p)
    \/ \E resp \in AutocompleteResponses : CreateSessionLookupReturns(resp)
    \/ \E p \in PlaceIdParams : SearchHotelsEarlier(p)
    \/ \E f \in AvailabilityFetches : EarlierAvailabilityReturns(f)
    \/ EarlierReturn
    \/ Return

SpecOverlap == Init /\ [][NextOverlap]_vars

\* two searchHotels calls in flight on a session that has a confirmed place
NextOverlapSearch ==
    \/ \E p \in PlaceIdParams : SearchHotels(p)
    \/ \E f \in AvailabilityFetches : AvailabilityReturns(f)
    \/ Return
    \/ \E p \in PlaceIdParams : SearchHotelsEarlier(p)
    \/ \E f \in AvailabilityFetches : EarlierAvailabilityReturns(f)
    \/ EarlierReturn

SpecOverlapSearch == InitBooking /\ [][NextOverlapSearch]_vars

\* ------------------------------------------------------------------------
\* The customer server: create-session, search-hotels, get-hotel-details and
\* book-hotel, with a second create-session or search-hotels call in flight
\* beside the running call
\* ------------------------------------------------------------------------
\* createSession of the call in flight beside the running one, up to its await
CreateSessionEarlier(p) ==
    /\ earlier.pc = "none"
    /\ uuids < MaxSessions
    /\ uuids' = uuids + 1
    /\ LET after == SessionAfterReset(Snapshot, p, uuids + 1)
       IN  /\ hotels' = after.hotels
           /\ placeSuggestions' = after.placeSuggestions
           /\ confirmedPlace' = after.confirmedPlace
           /\ context' = after.context
    /\ dropped' = dropped \cup DOMAIN hotels
    /\ fetched' = EmptyMap
    /\ earlier' =
          IF p.place = Undefined \/ Trim(p.place) = ""
          THEN [pc |-> "done", epoch |-> uuids + 1, placeToUse |-> NullPlace,
                returned |-> << >>,
                result |-> [kind |-> "return", status |-> "error",
                            message |-> "Place parameter is required for creating a session."]]
          ELSE [pc |-> "autocomplete", epoch |-> uuids + 1, placeToUse |-> NullPlace,
                returned |-> << >>, result |-> NoResult]
    /\ UNCHANGED <<pc, op, params, locals, result, calls, lastDelay, pollGhost, pre,
                   linkLog, lastFetch, formatterRun, telemetry>>

\* the autocomplete call of that createSession returns
EarlierLookupReturns(resp) ==
    /\ earlier.pc = "autocomplete"
    /\ IF ~resp.ok
       THEN /\ earlier' = [earlier EXCEPT !.pc = "done",
                  !.result = [kind |-> "return", status |-> "error",
                              message |-> "Failed to retrieve place suggestions. Please try again with a different query."]]
            /\ UNCHANGED <<placeSuggestions, confirmedPlace>>
       ELSE IF Len(resp.predictions) = 0
       THEN /\ earlier' = [earlier EXCEPT !.pc = "done",
                  !.result = [kind |-> "return", status |-> "empty",
                              message |-> "No places found matching your query. Please try a different search term."]]
            /\ UNCHANGED <<placeSuggestions, confirmedPlace>>
       ELSE /\ placeSuggestions' = resp.predictions
            /\ confirmedPlace' = resp.predictions[1]
            /\ earlier' = [earlier EXCEPT !.pc = "done",
                  !.result = [kind |-> "return", status |-> "success",
                              session_created |-> TRUE,
                              selected_place |-> resp.predictions[1].place_id,
                              alternative_places |->
                                  [i \in 1..Len(resp.predictions) |->
                                      resp.predictions[i].place_id],
                              context |-> context]]
    /\ UNCHANGED <<hotels, context, pc, op, params, locals, result, calls, lastDelay,
                   pollGhost, pre, linkLog, sessionGhost, formatterRun, telemetry>>

\* the inputs of the customer server runs: a blank and a given place, a
\* cached and an unknown hotel, quote-pull responses that end the polling,
\* an availability call that fails and one that returns two hotels
CustomerSessionParams == { p \in CreateSessionParams : p.language = Undefined /\ p.place # Undefined }

CustomerHotelIdParams == {"2", "9"}

CustomerPullResponses == { r \in PullResponses : r.ok /\ r.status # "processing" }

CustomerFetches ==
    { f \in AvailabilityFetches :
         f.kind = "network error" \/ (f.status = 200 /\ f.json /\ f.body.total = 2) }

NextCustomer ==
    \/ \E p \in CustomerSessionParams : CreateSession(p)
    \/ \E resp \in AutocompleteResponses : CreateSessionLookupReturns(resp)
    \/ \E p \in PlaceIdParams : SearchHotels(p)
    \/ \E f \in CustomerFetches : AvailabilityReturns(f)
    \/ \E h \in CustomerHotelIdParams : GetHotelDetails(h)
    \/ \E h \in CustomerHotelIdParams : BookHotel("modular", h, "rB1")
    \/ \E resp \in ScheduleResponses : ScheduleReturns(resp)
    \/ DelayElapses
    \/ \E resp \in CustomerPullResponses : PullReturns(resp)
    \/ Return
    \/ \E p \in CustomerSessionParams : CreateSessionEarlier(p)
    \/ \E resp \in AutocompleteResponses : EarlierLookupReturns(resp)
    \/ \E p \in PlaceIdParams : SearchHotelsEarlier(p)
    \/ \E f \in CustomerFetches : EarlierAvailabilityReturns(f)
    \/ EarlierReturn

SpecCustomer == Init /\ [][NextCustomer]_vars

\* ------------------------------------------------------------------------
\* Two bookHotel calls in flight: the running call and a second one whose
\* locals (quoteId, quoteStatus, quoteResult, attempts) are held in
\* 'earlier', with createSession and searchHotels calls running beside it
\* ------------------------------------------------------------------------
\* what the Gateway answers to the k-th quote-pull request for a reference:
\* the quote of q1 is ready at the fourth request, after a lost response;
\* the quote of q2 is not ready within the budget and every other response
\* is lost
QuoteAnswer(reference, k) ==
    CASE reference = "q1" ->
            IF k = 2 THEN PullFailure
            ELSE IF k < 4 THEN MkPull("processing", NoQuote, Undefined)
            ELSE MkPull("success", CHOOSE q \in Quotes : Len(q.quoted_products) = 1,
                        Undefined)
      [] reference = "q2" ->
            IF k % 2 = 0 THEN PullFailure
            ELSE MkPull("processing", NoQuote, Undefined)
      [] OTHER -> PullFailure

\* bookHotel of the second call up to its first await
BookHotelOther(hotel_id, rate_id) ==
    /\ earlier.pc = "none"
    /\ earlier' =
          LET base == [pc |-> "done", quoteId |-> Undefined, quoteStatus |-> Undefined,
                       quoteResult |-> NoQuote, attempts |-> 0, pulls |-> 0,
                       polling |-> Undefined, polled |-> {}, result |-> NoResult]
          IN  IF hotel_id \notin DOMAIN hotels
              THEN [base EXCEPT !.result = ErrorReturn("modular", HotelNotFoundText(hotel_id))]
              ELSE IF ~FindRate(hotels[hotel_id], rate_id).found
              THEN [base EXCEPT !.result =
                        ErrorReturn("modular", RateNotFoundText(hotel_id, rate_id))]
              ELSE [base EXCEPT !.pc = "schedule"]
    /\ UNCHANGED <<session, pc, op, params, locals, result, calls, lastDelay, pollGhost,
                   pre, linkLog, sessionGhost, formatterRun, telemetry>>

\* the head of the while loop of the second call
OtherLoopHead(e, status, qres, n) ==
    IF PollContinues("modular", status, n)
    THEN [e EXCEPT !.quoteStatus = status, !.attempts = n + 1, !.pc = "delay"]
    ELSE [e EXCEPT !.quoteStatus = status, !.pc = "done",
                   !.result = PollFinished("modular", e.quoteId, status, qres)]

\* its quote-schedule call returns
OtherScheduleReturns(resp) ==
    /\ earlier.pc = "schedule"
    /\ LET id == ScheduledQuoteId("modular", resp)
       IN  earlier' =
              IF id = Undefined
              THEN [earlier EXCEPT !.pc = "done",
                       !.result = ErrorReturn("modular",
                                      "Failed to schedule quote. Please try again later.")]
              ELSE OtherLoopHead([earlier EXCEPT !.quoteId = id], "processing", NoQuote, 0)
    /\ UNCHANGED <<session, pc, op, params, locals, result, calls, lastDelay, pollGhost,
                   pre, linkLog, sessionGhost, formatterRun, telemetry>>

\* the second call's delay step that sends the pull request for the quote of
\* the running call
OtherDelayElapses_PollsRunningQuote ==
    /\ earlier.pc = "delay"
    /\ LET reference == IF quoteId # Undefined THEN quoteId ELSE earlier.quoteId
       IN  earlier' = [earlier EXCEPT !.pc = "pull", !.pulls = @ + 1,
                                      !.polling = reference,
                                      !.polled = @ \cup {reference}]
    /\ UNCHANGED <<session, pc, op, params, locals, result, calls, lastDelay, pollGhost,
                   pre, linkLog, sessionGhost, formatterRun, telemetry>>

\* its setTimeout elapses and the pull request for its own quoteId is sent
OtherDelayElapses ==
    /\ earlier.pc = "delay"
    /\ earlier' = [earlier EXCEPT !.pc = "pull", !.pulls = @ + 1,
                                  !.polling = earlier.quoteId,
                                  !.polled = @ \cup {earlier.quoteId}]
    /\ UNCHANGED <<session, pc, op, params, locals, result, calls, lastDelay, pollGhost,
                   pre, linkLog, sessionGhost, formatterRun, telemetry>>

\* its quote-pull call returns what the Gateway answers for the reference polled
OtherPullReturns ==
    /\ earlier.pc = "pull"
    /\ LET resp == QuoteAnswer(earlier.polling, earlier.pulls)
           status == StatusAfterPull(earlier.quoteStatus, resp)
       IN  earlier' =
              IF ~resp.ok
              THEN OtherLoopHead(earlier, status, earlier.quoteResult, earlier.attempts)
              ELSE IF status = "success"
              THEN [earlier EXCEPT !.quoteStatus = status, !.quoteResult = resp.quote,
                       !.pc = "done",
                       !.result = PollFinished("modular", earlier.quoteId, status, resp.quote)]
              ELSE IF status = "failed"
              THEN [earlier EXCEPT !.quoteStatus = status, !.pc = "done",
                       !.result = FailedOutcome("modular", resp)]
              ELSE OtherLoopHead(earlier, status, earlier.quoteResult, earlier.attempts)
    /\ UNCHANGED <<session, pc, op, params, locals, result, calls, lastDelay, pollGhost,
                   pre, linkLog, sessionGhost, formatterRun, telemetry>>

\* the quote-pull call of the running bookHotel returns the Gateway's answer
\* for its quoteId
PullAnswered ==
    /\ pc = "pull"
    /\ PullReturns(QuoteAnswer(quoteId, calls.pull))

NextTwoBookings ==
    \/ \E h \in CustomerHotelIdParams : BookHotel("modular", h, "rB1")
    \/ \E resp \in ScheduleResponses : ScheduleReturns(resp)
    \/ DelayElapses
    \/ PullAnswered
    \/ \E p \in CustomerSessionParams : CreateSession(p)
    \/ \E resp \in AutocompleteResponses : CreateSessionLookupReturns(resp)
    \/ SearchHotels(Undefined)
    \/ \E f \in AvailabilityFetches : AvailabilityReturns(f)
    \/ Return
    \/ \E h \in CustomerHotelIdParams : BookHotelOther(h, "rB1")
    \/ \E resp \in ScheduleResponses : OtherScheduleReturns(resp)
    \/ OtherDelayElapses
    \/ OtherPullReturns
    \/ EarlierReturn

SpecTwoBookings == InitBooking /\ [][NextTwoBookings]_vars

\* ------------------------------------------------------------------------
\* UnifiedMetrics: counters and histograms batched in memory and exported
\* by a periodic timer and by recordCounter / recordHistogram
\* ------------------------------------------------------------------------
toolState == <<session, pc, op, params, locals, result, calls, lastDelay, pollGhost,
               pre, linkLog, sessionGhost, formatterRun, earlier>>

\* this.counters after incrementCounter(name, value, attributes)
CounterAfterIncrement(c, value) ==
    IF c.present THEN [c EXCEPT !.value = @ + value]
    ELSE [present |-> TRUE, value |-> value]

\* this.counters after the fetch of an export returned: counters.clear()
\* when response.ok, nothing on a non-ok response or a throw
AfterExport(c, export, ok) ==
    IF ok THEN [present |-> FALSE, value |-> 0] ELSE c

\* exportMetrics up to its await: nothing when both maps are empty, else the
\* payload is built from the values the maps hold now and the fetch is sent
ExportStarts(origin, c, h, ids) ==
    IF ~c.present /\ h = 0 THEN exporting
    ELSE [exporting EXCEPT ![origin] =
              [active |-> TRUE, counter |-> c, histogram |-> h, ids |-> ids]]

\* recordToolCall: incrementCounter and recordHistogramValue, no export
RecordToolCall ==
    /\ increments < MaxRecords
    /\ histograms < MaxRecords
    /\ increments' = increments + 1
    /\ counters' = CounterAfterIncrement(counters, 1)
    /\ pending' = pending \cup {increments + 1}
    /\ histograms' = histograms + 1
    /\ UNCHANGED <<toolState, exporting, delivered>>

\* recordCounter: incrementCounter, then exportMetrics up to its await
RecordCounter ==
    /\ increments < MaxRecords
    /\ ~exporting["record"].active
    /\ increments' = increments + 1
    /\ counters' = CounterAfterIncrement(counters, 1)
    /\ pending' = pending \cup {increments + 1}
    /\ exporting' = ExportStarts("record", counters', histograms, pending')
    /\ UNCHANGED <<toolState, histograms, delivered>>

\* recordHistogram: recordHistogramValue, then exportMetrics up to its await
RecordHistogram ==
    /\ histograms < MaxRecords
    /\ ~exporting["record"].active
    /\ histograms' = histograms + 1
    /\ exporting' = ExportStarts("record", counters, histograms', pending)
    /\ UNCHANGED <<toolState, counters, increments, pending, delivered>>

\* the setInterval callback: exportMetrics up to its await
TimerFires ==
    /\ ~exporting["timer"].active
    /\ exporting' = ExportStarts("timer", counters, histograms, pending)
    /\ UNCHANGED <<toolState, counters, histograms, increments, pending, delivered>>

\* the fetch of an export returns, ok or not (a non-ok status or a throw)
ExportReturns(origin, ok) ==
    /\ exporting[origin].active
    /\ counters' = AfterExport(counters, exporting[origin], ok)
    /\ histograms' = IF ok THEN 0 ELSE histograms
    /\ pending' = IF ok THEN {} ELSE pending
    /\ delivered' = IF ok
                    THEN [i \in 1..MaxRecords |->
                             delivered[i] + (IF i \in exporting[origin].ids THEN 1 ELSE 0)]
                    ELSE delivered
    /\ exporting' = [exporting EXCEPT ![origin] = NoExport]
    /\ UNCHANGED <<toolState, increments>>

NextTelemetry ==
    \/ RecordToolCall
    \/ RecordCounter
    \/ RecordHistogram
    \/ TimerFires
    \/ \E origin \in {"timer", "record"}, ok \in BOOLEAN : ExportReturns(origin, ok)

SpecTelemetry == Init /\ [][NextTelemetry]_vars

\* ------------------------------------------------------------------------
\* The formatters, each applied once to a hotel record
\* ------------------------------------------------------------------------
InitFormat ==
    /\ hotels = EmptyMap
    /\ placeSuggestions = << >>
    /\ confirmedPlace = NullPlace
    /\ context = InitialContext
    /\ pc = "idle"
    /\ op = "none"
    /\ params = NoParams
    /\ IdleLocals
    /\ linkLog = [q \in QuoteIds |-> {}]
    /\ uuids = 0
    /\ fetched = EmptyMap
    /\ dropped = {}
    /\ lastFetch = NoFetch
    /\ fmtHotel \in FormatterHotels \cup {NullHotel, UndefinedHotel}
    /\ fmtView = NoView
    /\ earlier = NoEarlier
    /\ NoTelemetry

\* formatHotelToSummaryObject(fmtHotel); it is applied to the members of a
\* hotel list only
FormatSummary ==
    /\ fmtView = NoView
    /\ fmtHotel \notin {NullHotel, UndefinedHotel}
    /\ \E order \in SortOrders(Opt(fmtHotel, "rooms", << >>)) :
           fmtView' = [kind |-> "summary",
                       view |-> FormatHotelToSummaryObject(fmtHotel, order)]
    /\ UNCHANGED <<session, pc, op, params, locals, result, calls, lastDelay, pollGhost,
                   pre, linkLog, sessionGhost, fmtHotel, earlier, telemetry>>

\* formatHotelToDetailObject(fmtHotel)
FormatDetail ==
    /\ fmtView = NoView
    /\ fmtView' = [kind |-> "detail", view |-> FormatHotelToDetailObject(fmtHotel)]
    /\ UNCHANGED <<session, pc, op, params, locals, result, calls, lastDelay, pollGhost,
                   pre, linkLog, sessionGhost, fmtHotel, earlier, telemetry>>

NextFormat == FormatSummary \/ FormatDetail

SpecFormat == InitFormat /\ [][NextFormat]_vars

\* ------------------------------------------------------------------------
\* Properties
\* ------------------------------------------------------------------------
Has(r, f) == f \in DOMAIN r

\* a bookHotel call of the modular tool is running or has just finished
ModularBook == op = "bookHotel" /\ params.variant = "modular"

\* every rate id that occurs in any room of the hotel
RateIdsOf(hotel) ==
    UNION { { hotel.rooms[i].rates[j].rate_id : j \in 1..Len(hotel.rooms[i].rates) }
            : i \in 1..Len(hotel.rooms) }

\* the rates of the hotel, of any room, that carry the rate id
RatesWithId(hotel, rate_id) ==
    UNION { { hotel.rooms[i].rates[j] : j \in { n \in 1..Len(hotel.rooms[i].rates) :
                  hotel.rooms[i].rates[n].rate_id = rate_id } }
            : i \in 1..Len(hotel.rooms) }

\* the hotel and the rate of the running bookHotel call resolve in the session
BookResolves ==
    /\ params.hotel_id \in DOMAIN pre.hotels
    /\ params.rate_id \in RateIdsOf(pre.hotels[params.hotel_id])

\* C1: a modular bookHotel call whose quote-pull calls all answered
\* "processing" has finished only after exactly MAX_QUOTE_POLL_ATTEMPTS
\* quote-pull calls, with status "processing" and the non-empty payment link
\* <checkout base URL><reference>.
C1_TimeoutAfterBudget ==
    (pc = "done" /\ ModularBook /\ quoteId # Undefined /\ onlyProcessing)
    => /\ calls.pull = MAX_QUOTE_POLL_ATTEMPTS
       /\ result.kind = "return"
       /\ result.status = "processing"
       /\ Has(result, "payment_link")
       /\ result.payment_link # ""
       /\ result.payment_link = "https://app.jinko.so/checkout/" \o scheduleResponse.reference

C1_Witness ==
    /\ pc = "done" /\ ModularBook /\ onlyProcessing
    /\ calls.pull = MAX_QUOTE_POLL_ATTEMPTS
    /\ result.status = "processing"

C3_FailedIsReturned ==
    (pc = "done" /\ ModularBook /\ lastPull.ok /\ lastPull.status = "failed")
    => /\ result.kind = "return"
       /\ Has(result, "message")
       /\ result.message = "Quote generation failed: " \o StrOr(lastPull.error, "Unknown error")

\* C4: a book-hotel call (any server variant) makes at most
\* MAX_QUOTE_POLL_ATTEMPTS quote-pull calls and none after a response with
\* status "success" or "failed".
C4_PollsBounded ==
    op = "bookHotel"
    => /\ calls.pull <= MAX_QUOTE_POLL_ATTEMPTS
       /\ pullsAfterTerminal = 0
       /\ (terminalSeen => pc = "done")

C4_Witness ==
    /\ op = "bookHotel" /\ pc = "done"
    /\ calls.pull = MAX_QUOTE_POLL_ATTEMPTS
    /\ terminalSeen /\ ~priorOnlyProcessing

\* C5: every result the modular bookHotel returns after a successful
\* quote-schedule carries a payment link, and all links returned for one
\* quote reference are the same, whether the result is "processing" or
\* "success".
C5_LinkFromReferenceAlone ==
    /\ (pc = "done" /\ ModularBook /\ quoteId # Undefined /\ result.kind = "return")
       => Has(result, "payment_link")
    /\ \A q \in QuoteIds : \A a, b \in linkLog[q] : a[2] = b[2]

\* a timed-out and a successful result are on record for the same reference
C5_Witness ==
    \E q \in QuoteIds : \E a, b \in linkLog[q] : a[1] = "processing" /\ b[1] = "success"

\* C6: whenever the rate id of a bookHotel call occurs in any room of the
\* cached hotel, the call schedules a quote for exactly that rate (its
\* opaque payload, provider and dates) and never reports rate-not-found.
C6_RateFoundInAnyRoom ==
    (op = "bookHotel" /\ pc # "idle" /\ BookResolves)
    => /\ calls.schedule = 1
       /\ Len(quoteRequest.products) = 1
       /\ \E rate \in RatesWithId(pre.hotels[params.hotel_id], params.rate_id) :
            /\ quoteRequest.products[1].opaque_rate_data = rate.opaque
            /\ quoteRequest.products[1].provider_id = rate.provider_id
            /\ quoteRequest.products[1].check_in_date = rate.check_in_date
            /\ quoteRequest.products[1].check_out_date = rate.check_out_date
       /\ quoteRequest.products[1].hotel_id = params.hotel_id

\* the rate sits on the second room only
C6_Witness ==
    /\ op = "bookHotel" /\ pc = "schedule" /\ BookResolves
    /\ params.rate_id \notin
         { pre.hotels[params.hotel_id].rooms[1].rates[j].rate_id :
             j \in 1..Len(pre.hotels[params.hotel_id].rooms[1].rates) }
    /\ calls.schedule = 1

C8_NoPullWithoutReference ==
    (ModularBook /\ (scheduleResponse = NoSchedule \/ ~scheduleResponse.ok
                        \/ scheduleResponse.reference = Undefined))
    => /\ calls.pull = 0
       /\ calls.delay = 0
       /\ (scheduleResponse # NoSchedule
            => pc = "done" /\ result.kind = "return" /\ result.status = "error")

\* the schedule response carries an id but no reference
C8_Witness ==
    /\ ModularBook /\ pc = "done"
    /\ scheduleResponse.ok /\ scheduleResponse.reference = Undefined
    /\ scheduleResponse.id # Undefined
    /\ result.status = "error"

\* C9: a searchHotels call made with confirmedPlace null and with no
\* place_id, or a place_id that matches no current suggestion, returns
\* status "error", makes no Gateway call and leaves the Session Store as it
\* was.
C9_NoPlaceNoCalls ==
    (op = "searchHotels" /\ pc # "idle" /\ pre.confirmedPlace = NullPlace
        /\ (params.place_id = Undefined
            \/ \A i \in 1..Len(pre.placeSuggestions) :
                   pre.placeSuggestions[i].place_id # params.place_id))
    => /\ pc = "done"
       /\ result.kind = "return"
       /\ result.status = "error"
       /\ GatewayCalls = 0
       /\ Snapshot = pre

\* suggestions are listed, none is confirmed, the place_id matches none
C9_Witness ==
    /\ op = "searchHotels" /\ pc = "done"
    /\ pre.confirmedPlace = NullPlace
    /\ Len(pre.placeSuggestions) > 0
    /\ params.place_id = "p9"
    /\ result.status = "error"

\* C10: when the availability call of a search succeeds with an empty hotel
\* list, the result has status "empty" and the hotel map is what it was
\* before the call.
C10_EmptyKeepsHotels ==
    (op \in {"searchHotels", "searchHotelsStandard"} /\ pc = "done"
        /\ availabilityResult.ok /\ Len(availabilityResult.hotels) = 0)
    => /\ result.kind = "return"
       /\ result.status = "empty"
       /\ hotels = pre.hotels

\* hotels were cached before the empty search
C10_Witness ==
    /\ op \in {"searchHotels", "searchHotelsStandard"} /\ pc = "done"
    /\ availabilityResult.ok /\ Len(availabilityResult.hotels) = 0
    /\ DOMAIN pre.hotels # {}
    /\ result.status = "empty"

C12_MapIsWhatWasReturned ==
    /\ DOMAIN hotels = DOMAIN fetched
    /\ \A k \in DOMAIN hotels : hotels[k] = fetched[k]
    /\ \A k \in DOMAIN hotels : ToString(hotels[k].id) = k

\* after a createSession call, a load-more response has replaced the record
\* of hotel 1 while hotel 2, cached by an earlier search, is still there
C12_Witness ==
    /\ uuids > 0
    /\ op = "loadMoreHotels" /\ pc = "done"
    /\ result.status = "success"
    /\ DOMAIN hotels = {"1", "2"}
    /\ DOMAIN pre.hotels = {"1", "2"}
    /\ pre.hotels["1"] = HotelA
    /\ hotels["1"] = HotelA2
    /\ hotels["2"] = HotelB

\* C13: a createSession call whose place is empty or whitespace-only
\* returns an error result and leaves every field of the Session Store
\* (hotels, placeSuggestions, confirmedPlace, language, conversation id,
\* currency, country code, market) as it was before the call.
C13_BlankPlaceChangesNothing ==
    (op = "createSession" /\ pc = "done" /\ params.place \in {"", "   "})
    => /\ result.kind = "return"
       /\ result.status = "error"
       /\ hotels = pre.hotels
       /\ placeSuggestions = pre.placeSuggestions
       /\ confirmedPlace = pre.confirmedPlace
       /\ context = pre.context

\* C14: when a createSession call with a non-empty place has returned, the
\* hotel map is empty, placeSuggestions is the list of predictions of its
\* lookup (empty when the lookup failed), confirmedPlace is the first
\* prediction (null when the lookup failed or returned none) and the
\* conversation id is the one generated by this call, different from the
\* one before; and a later getHotelDetails or bookHotel call for a hotel id
\* that a createSession call discarded and that no search has returned
\* since ends with the hotel-not-found error.
C14_ResetDiscardsHotels ==
    /\ (op = "createSession" /\ pc = "done" /\ params.place = "Paris")
       => LET predictions == IF autocompleteResult.ok THEN autocompleteResult.predictions
                             ELSE << >>
          IN  /\ DOMAIN hotels = {}
              /\ placeSuggestions = predictions
              /\ confirmedPlace = IF Len(predictions) > 0 THEN predictions[1]
                                  ELSE NullPlace
              /\ context.conversation_id = Uuid(uuids)
              /\ context.conversation_id # pre.context.conversation_id
              /\ context.conversation_id # Undefined
    /\ (op \in {"getHotelDetails", "bookHotel"} /\ pc = "done"
          /\ params.hotel_id \in dropped /\ params.hotel_id \notin DOMAIN fetched)
       => /\ result.kind = "return"
          /\ result.status = "error"
          /\ result.message = "Hotel with ID " \o params.hotel_id
                \o " not found in session. Please use the search-hotels tool to find hotels first."

\* after a second createSession, a search has cached hotel 1 again; a
\* bookHotel call for hotel 2, cached only before the reset, is refused
C14_Witness ==
    /\ op = "bookHotel" /\ pc = "done"
    /\ context.conversation_id = Uuid(2)
    /\ params.hotel_id = "2"
    /\ "2" \in dropped
    /\ DOMAIN hotels = {"1"}
    /\ Len(placeSuggestions) = 2
    /\ confirmedPlace = PlaceP2
    /\ result.status = "error"

\* C15: when the availability request of a searchHotels or loadMoreHotels
\* call fails on the network or is answered with a non-success HTTP status,
\* the call returns (it does not raise) status "error" with the retry-later
\* message, and the hotel map is what it was before the call.
C15_GatewayFailureIsError ==
    (op \in {"searchHotels", "searchHotelsStandard", "loadMoreHotels"} /\ pc = "done"
        /\ (lastFetch.kind = "network error"
            \/ (lastFetch.kind = "http" /\ lastFetch.status \notin 200..299)))
    => /\ result.kind = "return"
       /\ result.status = "error"
       /\ result.message = "Failed to retrieve hotel availability data. Please try again later."
       /\ hotels = pre.hotels

\* a loadMoreHotels call on a filled hotel map is answered with status 500
C15_Witness ==
    /\ op = "loadMoreHotels" /\ pc = "done"
    /\ lastFetch.kind = "http" /\ lastFetch.status = 500
    /\ DOMAIN pre.hotels = {"1", "2"}
    /\ result.status = "error"

\* C16: a searchHotels call whose place_id is the place_id of an entry of
\* the current placeSuggestions sends its availability request with that
\* entry's coordinates and makes that entry the confirmedPlace; a call
\* without place_id, or with a place_id that matches no current
\* suggestion, leaves confirmedPlace as it was and, when a place is
\* confirmed, sends its request with the confirmed place's coordinates.
C16_SearchPlaceSelection ==
    (op = "searchHotels" /\ pc # "idle")
    => LET M == { i \in 1..Len(pre.placeSuggestions) :
                     pre.placeSuggestions[i].place_id = params.place_id }
       IN  IF params.place_id # Undefined /\ M # {}
           THEN \E i \in M :
                   /\ confirmedPlace = pre.placeSuggestions[i]
                   /\ calls.availability = 1
                   /\ requestBody.location.latitude
                        = ToString(pre.placeSuggestions[i].latitude)
                   /\ requestBody.location.longitude
                        = ToString(pre.placeSuggestions[i].longitude)
           ELSE /\ confirmedPlace = pre.confirmedPlace
                /\ pre.confirmedPlace # NullPlace =>
                     /\ calls.availability = 1
                     /\ requestBody.location.latitude
                          = ToString(pre.confirmedPlace.latitude)
                     /\ requestBody.location.longitude
                          = ToString(pre.confirmedPlace.longitude)

\* p2 is confirmed, the call names the other suggestion p1: the request
\* goes to p1's coordinates
C16_Witness ==
    /\ op = "searchHotels" /\ pc = "availability"
    /\ params.place_id = "p1"
    /\ pre.confirmedPlace = PlaceP2
    /\ confirmedPlace = PlaceP1
    /\ requestBody.location = [latitude |-> "48", longitude |-> "2"]

\* C17: the step in which an autocompletePlaces call returns with a
\* non-empty list of predictions makes placeSuggestions exactly that list;
\* a single prediction becomes confirmedPlace, with more than one
\* confirmedPlace stays what it was.  On the servers that expose
\* autocomplete-place and confirm-place, confirmedPlace changes in no other
\* step than that of a single prediction and that of a confirmPlace call
\* which succeeds with the id of a listed suggestion.
C17_AutocompleteReplacesSuggestions ==
    [][ /\ (pc = "autocomplete" /\ op = "autocompletePlaces"
               /\ autocompleteResult'.ok /\ Len(autocompleteResult'.predictions) > 0)
           => /\ placeSuggestions' = autocompleteResult'.predictions
              /\ Len(autocompleteResult'.predictions) = 1
                   => confirmedPlace' = autocompleteResult'.predictions[1]
              /\ Len(autocompleteResult'.predictions) > 1
                   => confirmedPlace' = confirmedPlace
        /\ confirmedPlace' # confirmedPlace
           => \/ /\ pc = "autocomplete" /\ op = "autocompletePlaces"
                 /\ Len(autocompleteResult'.predictions) = 1
              \/ /\ op' = "confirmPlace" /\ pc' = "done"
                 /\ result'.status = "success"
                 /\ \E i \in 1..Len(placeSuggestions) :
                      /\ placeSuggestions[i].place_id = params'.place_id
                      /\ confirmedPlace' = placeSuggestions[i]
      ]_vars

\* p1 was confirmed; a lookup returned two predictions and p1 is still
\* the confirmed place
C17_Witness ==
    /\ op = "autocompletePlaces" /\ pc = "done"
    /\ Len(autocompleteResult.predictions) = 2
    /\ placeSuggestions = << PlaceP2, PlaceP1 >>
    /\ pre.placeSuggestions = << PlaceP1 >>
    /\ pre.confirmedPlace = PlaceP1
    /\ confirmedPlace = PlaceP1

\* the hotel given to the formatter has no rooms (rooms empty or absent)
NoRooms == Len(Opt(fmtHotel, "rooms", << >>)) = 0

\* C18 (as claimed): for a hotel with zero rooms the summary's lowest_rate
\* is the placeholder with is_refundable = false, payment_type "Pay Now" and
\* price "N/A USD", whatever the hotel's own min_price is.
C18_ZeroRoomsPlaceholder ==
    (fmtView.kind = "summary" /\ NoRooms)
    => /\ fmtView.view.lowest_rate.is_refundable = FALSE
       /\ fmtView.view.lowest_rate.payment_type = "Pay Now"
       /\ fmtView.view.lowest_rate.price = "N/A USD"

\* C18 (amended): for a hotel with zero rooms the summary's lowest_rate is
\* the placeholder with empty ids, is_refundable = false, payment_type "Pay
\* Now" and the price text of the hotel's own min_price: "<value>
\* <currency>", "N/A" standing for a missing or falsy value and "USD" for a
\* missing or empty currency; it is "N/A USD" when the hotel has no
\* min_price.
C18_ZeroRoomsPlaceholderAmended ==
    (fmtView.kind = "summary" /\ NoRooms)
    => /\ fmtView.view.lowest_rate.room_id = ""
       /\ fmtView.view.lowest_rate.rate_id = ""
       /\ fmtView.view.lowest_rate.is_refundable = FALSE
       /\ fmtView.view.lowest_rate.payment_type = "Pay Now"
       /\ fmtView.view.lowest_rate.price =
            IF "min_price" \notin DOMAIN fmtHotel THEN "N/A USD"
            ELSE LET v == fmtHotel.min_price.value
                     c == fmtHotel.min_price.currency
                 IN  (IF v.t = "num" THEN (IF v.n = 0 THEN "N/A" ELSE ToString(v.n))
                      ELSE (IF v.s = "" THEN "N/A" ELSE v.s))
                     \o " " \o (IF c \in {"", Undefined} THEN "USD" ELSE c)
       /\ ("min_price" \in DOMAIN fmtHotel /\ fmtHotel.min_price = MkMoney(Num(150), "EUR")) =>
            fmtView.view.lowest_rate.price = "150 EUR"

\* a hotel without rooms and with min_price 150 EUR has been summarised
C18_Witness ==
    /\ fmtView.kind = "summary" /\ NoRooms
    /\ "min_price" \in DOMAIN fmtHotel
    /\ fmtHotel.min_price = MkMoney(Num(150), "EUR")
    /\ fmtView.view.lowest_rate.price = "150 EUR"
    /\ fmtView.view.lowest_rate.payment_type = "Pay Now"

\* the indices of the rooms of the formatted hotel whose price parses as a number
Priced ==
    LET rooms == Opt(fmtHotel, "rooms", << >>)
    IN  { i \in 1..Len(rooms) : RoomPrice(rooms[i]).k = "num" }

\* C19: for every non-empty room list, the room whose ids appear in the
\* summary's lowest_rate has the minimum numeric min_price.value among the
\* rooms with a parseable numeric price; a room with a missing or
\* non-numeric price is selected only when no room has a parseable price.
C19_CheapestRoomSelected ==
    LET rooms == Opt(fmtHotel, "rooms", << >>)
    IN  (fmtView.kind = "summary" /\ Len(rooms) > 0 /\ Priced # {})
        => \E i \in Priced :
              /\ rooms[i].room_id = fmtView.view.lowest_rate.room_id
              /\ rooms[i].lowest_rate.rate_id = fmtView.view.lowest_rate.rate_id
              /\ \A j \in Priced :
                    RoomPrice(rooms[i]).n <= RoomPrice(rooms[j]).n

\* the rate carries an opaque payload that JSON.parse rejects
UnparseableOpaque(rate) ==
    /\ "opaque" \in DOMAIN rate
    /\ rate.opaque # Undefined
    /\ ~JsonParse(rate.opaque).ok

\* C20: in both formatters a rate whose opaque payload is not parseable as
\* JSON is reported with payment_type "Pay Now" and no meal plan, whatever
\* its other fields (its description included) are.
C20_UnparseableOpaqueDefaults ==
    LET rooms == Opt(fmtHotel, "rooms", << >>)
    IN  /\ fmtView.kind = "summary" =>
              \A i \in 1..Len(rooms) :
                  \A n \in 1..Len(rooms[i].rates) :
                      ( /\ rooms[i].room_id = fmtView.view.lowest_rate.room_id
                        /\ rooms[i].rates[n].rate_id = fmtView.view.lowest_rate.rate_id
                        /\ UnparseableOpaque(rooms[i].rates[n]) )
                      => /\ fmtView.view.lowest_rate.payment_type = "Pay Now"
                         /\ "meal_plan" \notin DOMAIN fmtView.view.lowest_rate
        /\ fmtView.kind = "detail" =>
              \A i \in 1..Len(rooms) :
                  \A n \in 1..Len(rooms[i].rates) :
                      UnparseableOpaque(rooms[i].rates[n])
                      => /\ fmtView.view.rooms[i].rates[n].payment_type = "Pay Now"
                         /\ fmtView.view.rooms[i].rates[n].meal_plan = Undefined


\* C21: formatHotelToDetailObject applied to null or undefined does not
\* throw and returns the placeholder object with id "unknown" and empty
\* facilities, images and rooms.
C21_NullHotelPlaceholder ==
    (fmtView.kind = "detail" /\ fmtHotel \in {NullHotel, UndefinedHotel})
    => fmtView.view = [id |-> "unknown", name |-> "Unknown Hotel", ranking |-> "N/A",
                       location |-> "N/A", facilities |-> << >>, images |-> << >>,
                       rooms |-> << >>]

\* the detail formatter has been applied to undefined
C21_Witness ==
    /\ fmtHotel = UndefinedHotel
    /\ fmtView.kind = "detail"
    /\ fmtView.view.id = "unknown"


\* a tool call of the given tool has finished
Finished(tool) == pc = "done" /\ op = tool

\* the hotel map is the map the call started with, with every hotel of the
\* list stored under its string id, a later record replacing an earlier one
Upserted(list) ==
    LET At(k) == { i \in 1..Len(list) : ToString(list[i].id) = k }
    IN  /\ DOMAIN hotels = DOMAIN pre.hotels \cup { ToString(list[i].id) : i \in 1..Len(list) }
        /\ \A k \in DOMAIN hotels :
              IF At(k) = {} THEN hotels[k] = pre.hotels[k]
              ELSE hotels[k] = list[CHOOSE i \in At(k) : \A j \in At(k) : j <= i]

C23_StandardBookReturnsLink ==
    ( /\ Finished("bookHotelStandard")
      /\ params.hotel_id \in DOMAIN hotels
      /\ params.rate_id \in RateIdsOf(hotels[params.hotel_id]) )
    => /\ calls.schedule = 1
       /\ "payment_link" \in DOMAIN result


\* C24: every bookHotel invocation eventually finishes, returning a result
\* or raising, whatever the backend answers, provided each Gateway call and
\* each delay of the poll loop completes.
C24_BookHotelFinishes ==
    (op = "bookHotel" /\ pc # "done")
    ~> (op = "bookHotel" /\ pc = "done" /\ result.kind \in {"return", "throw"})

\* a bookHotel call has finished after polling through the whole budget
C24_Witness ==
    /\ op = "bookHotel"
    /\ pc = "done"
    /\ attempts = MAX_QUOTE_POLL_ATTEMPTS
    /\ calls.pull = MAX_QUOTE_POLL_ATTEMPTS
    /\ onlyProcessing
    /\ result.kind = "return"


\* C25: in the poll loop every quote-pull call, the first one after
\* scheduling included, is preceded by exactly one delay of the constant
\* interval QUOTE_POLL_INTERVAL_MS; delays and polls alternate, the interval
\* never changes, and no delay is taken after the final poll.
C25_DelayBeforeEveryPoll ==
    [][ /\ pc' = "pull" =>
              /\ pc = "delay"
              /\ calls'.delay = calls.delay + 1
              /\ calls'.pull = calls.pull + 1
              /\ lastDelay' = QUOTE_POLL_INTERVAL_MS
        /\ (calls'.delay # calls.delay /\ pc' # "idle") => pc' = "pull"
        /\ pc = "delay" => pc' = "pull"
        /\ pc' = "done" => calls'.delay = calls'.pull ]_vars

\* a bookHotel call has finished after three delays and three polls
C25_Witness ==
    /\ op = "bookHotel"
    /\ pc = "done"
    /\ calls.delay = 3
    /\ calls.pull = 3
    /\ lastDelay = QUOTE_POLL_INTERVAL_MS
    /\ result.kind = "return"


\* the rate that the loops of bookHotel resolve: the first rate, in room
\* order and then rate order, that carries the rate id of the call
ResolvedRate ==
    LET hotel == hotels[params.hotel_id]
        M == UNION { { <<i, j>> : j \in { n \in 1..Len(hotel.rooms[i].rates) :
                           hotel.rooms[i].rates[n].rate_id = params.rate_id } }
                     : i \in 1..Len(hotel.rooms) }
        p == CHOOSE p \in M : \A q \in M : p[1] < q[1] \/ (p[1] = q[1] /\ p[2] <= q[2])
    IN  hotel.rooms[p[1]].rates[p[2]]

\* C26: a bookHotel invocation issues at most one quote-schedule request,
\* which precedes every quote-pull of the invocation; its product list holds
\* exactly one product, whose opaque_rate_data is the resolved rate's opaque
\* payload unchanged and whose hotel id, provider id and stay dates are
\* those of the resolved hotel and rate.
C26_SingleScheduleRequest ==
    op = "bookHotel" =>
        /\ calls.schedule <= 1
        /\ calls.pull > 0 => (calls.schedule = 1 /\ scheduleResponse # NoSchedule)
        /\ pc = "schedule" => (calls.schedule = 1 /\ calls.pull = 0)
        /\ calls.schedule = 1 =>
              /\ Len(quoteRequest.products) = 1
              /\ quoteRequest.products[1].opaque_rate_data = ResolvedRate.opaque
              /\ quoteRequest.products[1].hotel_id = ToString(hotels[params.hotel_id].id)
              /\ quoteRequest.products[1].provider_id = ResolvedRate.provider_id
              /\ quoteRequest.products[1].check_in_date = ResolvedRate.check_in_date
              /\ quoteRequest.products[1].check_out_date = ResolvedRate.check_out_date

\* polling is under way for the rate of the other provider
C26_Witness ==
    /\ op = "bookHotel"
    /\ params.rate_id = "rB1"
    /\ calls.schedule = 1
    /\ calls.pull = 2
    /\ quoteRequest.products[1].provider_id = "prov-2"
    /\ quoteRequest.products[1].check_in_date = "2025-07-01"
    /\ quoteRequest.products[1].opaque_rate_data = "opq-B1"


\* C27: bookHotel never modifies the Session Store: during the call and for
\* every outcome hotels, placeSuggestions, confirmedPlace and the scalar
\* context are what they were when the call started, and once the call has
\* returned nothing about the quote is left for later calls.
C27_BookHotelLeavesStore ==
    /\ op = "bookHotel" =>
          /\ hotels = pre.hotels
          /\ placeSuggestions = pre.placeSuggestions
          /\ confirmedPlace = pre.confirmedPlace
          /\ context = pre.context
    /\ pc = "idle" =>
          /\ quoteRequest = NoRequest
          /\ scheduleResponse = NoSchedule
          /\ quoteId = Undefined
          /\ quoteStatus = Undefined
          /\ quoteResult = NoQuote

\* a bookHotel call on a created session with cached hotels has ended with
\* a quote
C27_Witness ==
    /\ op = "bookHotel"
    /\ pc = "done"
    /\ result.kind = "return"
    /\ result.status = "success"
    /\ DOMAIN hotels = {"1", "2"}
    /\ confirmedPlace # NullPlace
    /\ context.conversation_id # Undefined
    /\ quoteId # Undefined


\* C28: in the YAML-output server, a bookHotel call whose polling exhausts
\* the attempt budget returns a "processing" result that contains the
\* payment link, built from the same quote reference, that its "success"
\* result would have contained.
C28_YamlTimeoutCarriesLink ==
    ( /\ op = "bookHotel" /\ params.variant = "yaml" /\ pc = "done"
      /\ quoteId # Undefined
      /\ attempts = MAX_QUOTE_POLL_ATTEMPTS
      /\ quoteStatus = "processing" )
    => /\ result.kind = "return"
       /\ result.status = "processing"
       /\ Has(result, "payment_link")
       /\ result.payment_link = "http://www.jinko.so/booking/pay/" \o Base64(quoteId)


\* C29: in the standard variant, when the Gateway call made by
\* getHotelDetails fails, the operation returns a result with status
\* "error"; it never returns "success" for a hotel whose data could not be
\* retrieved.
C29_StandardDetailsFailureIsError ==
    ( /\ Finished("getHotelDetailsStandard")
      /\ \/ lastFetch.kind = "network error"
         \/ lastFetch.status \notin 200..299
         \/ ~lastFetch.json )
    => /\ result.kind = "return"
       /\ result.status = "error"


\* C30: if a createSession call runs while a searchHotels call issued before
\* it is still awaiting its Gateway response, then once both calls have
\* completed the hotel map of the new session contains no hotel returned by
\* that earlier search.
C30_NoInventoryFromEarlierSearch ==
    ( /\ earlier.pc = "done"
      /\ earlier.epoch < uuids
      /\ ~(op = "createSession" /\ pc = "autocomplete") )
    => \A i \in 1..Len(earlier.returned) :
           HotelKey(earlier.returned[i]) \notin DOMAIN hotels


\* ---------------------------------------------------------------------------
\* C31  Two searchHotels calls were in flight together and both have
\* completed: every hotel returned by either call is in the hotel map, the
\* record stored under each id is the one of the response that was processed
\* last for that id, and no hotel that was in the map before was lost.
\* ---------------------------------------------------------------------------
InMap(list) == \A i \in 1..Len(list) : HotelKey(list[i]) \in DOMAIN hotels

BothSearchesDone ==
    /\ Finished("searchHotels")
    /\ earlier.pc = "done"

C31_OverlappingSearchesMerge ==
    BothSearchesDone =>
        /\ InMap(availabilityResult.hotels)
        /\ InMap(earlier.returned)
        /\ \A k \in DOMAIN hotels : k \in DOMAIN fetched /\ hotels[k] = fetched[k]
        /\ \A k \in DOMAIN pre.hotels : k \in DOMAIN hotels

\* both calls returned hotel 1 with different records and the later one is kept
C31_OverlappingSearchesMerge_Witness ==
    /\ BothSearchesDone
    /\ availabilityResult.hotels = << HotelA2 >>
    /\ earlier.returned = << HotelA, HotelB >>
    /\ hotels["1"] = HotelA
    /\ "2" \in DOMAIN hotels


\* ---------------------------------------------------------------------------
\* C33  A quote-pull call that returns no response takes one attempt of the
\* budget and does not end the polling: a modular bookHotel call whose
\* quote-pull calls all failed goes on polling until it has made exactly
\* MAX_QUOTE_POLL_ATTEMPTS calls, and then returns status "processing" with
\* the payment link of the quote, not an error.
\* ---------------------------------------------------------------------------
EveryPullFailed == ModularBook /\ quoteId # Undefined /\ calls.pull > 0 /\ ~calls.answered

C33_FailedPullsUseTheBudget ==
    /\ (EveryPullFailed /\ pc = "pull") => (attempts = calls.pull /\ ~lastPull.ok)
    /\ (EveryPullFailed /\ pc = "delay") =>
            /\ attempts = calls.pull + 1
            /\ attempts <= MAX_QUOTE_POLL_ATTEMPTS
    /\ (EveryPullFailed /\ pc \notin {"pull", "delay"}) =>
            /\ pc = "done"
            /\ ~lastPull.ok
            /\ calls.pull = MAX_QUOTE_POLL_ATTEMPTS
            /\ result.kind = "return"
            /\ result.status = "processing"
            /\ Has(result, "payment_link")
            /\ result.payment_link = "https://app.jinko.so/checkout/" \o quoteId

C33_FailedPullsUseTheBudget_Witness ==
    /\ EveryPullFailed
    /\ pc = "done"
    /\ calls.pull = MAX_QUOTE_POLL_ATTEMPTS
    /\ result.status = "processing"
    /\ Has(result, "payment_link")


\* ---------------------------------------------------------------------------
\* C34  A modular bookHotel call returns status "success" exactly when its
\* last quote-pull response had status "success" and carried a quote.  A
\* response whose status is none of "processing", "success" and "failed", and
\* a "success" response without a quote, end the polling at once, and the
\* call returns status "processing".
\* ---------------------------------------------------------------------------
LastPullSucceeded == lastPull.ok /\ lastPull.status = "success" /\ lastPull.quote.present

LastPullUnusable ==
    /\ lastPull.ok
    /\ \/ lastPull.status \notin {"processing", "success", "failed"}
       \/ lastPull.status = "success" /\ ~lastPull.quote.present

C34_SuccessNeedsQuote ==
    /\ (Finished("bookHotel") /\ ModularBook) =>
            ((Has(result, "status") /\ result.status = "success") <=> LastPullSucceeded)
    /\ (ModularBook /\ LastPullUnusable) =>
            /\ pc = "done"
            /\ calls.pull = attempts
            /\ result.kind = "return"
            /\ result.status = "processing"

\* a "success" response without a quote, on the second poll
C34_SuccessNeedsQuote_Witness ==
    /\ Finished("bookHotel") /\ ModularBook
    /\ lastPull.ok /\ lastPull.status = "success" /\ ~lastPull.quote.present
    /\ calls.pull = 2
    /\ result.status = "processing"

\* a response with a status the loop does not know
C34_UnknownStatus_Witness ==
    /\ Finished("bookHotel") /\ ModularBook
    /\ lastPull.ok /\ lastPull.status = "expired"
    /\ calls.pull < MAX_QUOTE_POLL_ATTEMPTS
    /\ result.status = "processing"


\* ---------------------------------------------------------------------------
\* C35  searchHotels sets confirmedPlace to the suggestion its place_id
\* selects when the place_id matches an entry of the current
\* placeSuggestions, and leaves confirmedPlace alone otherwise; the change is
\* in place while the availability call is in flight and stays whatever the
\* call returns; placeSuggestions is never changed by the call.
\* ---------------------------------------------------------------------------
PlaceIdMatches ==
    /\ params.place_id # Undefined
    /\ \E i \in 1..Len(pre.placeSuggestions) :
           pre.placeSuggestions[i].place_id = params.place_id

C35_SearchConfirmsBeforeCall ==
    (op = "searchHotels" /\ pc \in {"availability", "done"})
    => /\ placeSuggestions = pre.placeSuggestions
       /\ PlaceIdMatches =>
             /\ confirmedPlace.place_id = params.place_id
             /\ \E i \in 1..Len(placeSuggestions) : placeSuggestions[i] = confirmedPlace
       /\ ~PlaceIdMatches => confirmedPlace = pre.confirmedPlace
       /\ confirmedPlace # pre.confirmedPlace => PlaceIdMatches

\* the availability call failed and the newly selected place stays confirmed
C35_SearchConfirmsBeforeCall_Witness ==
    /\ Finished("searchHotels")
    /\ PlaceIdMatches
    /\ ~availabilityResult.ok
    /\ result.status = "error"
    /\ pre.confirmedPlace # NullPlace
    /\ confirmedPlace # pre.confirmedPlace
    /\ confirmedPlace.place_id = params.place_id

\* the change is already made while the call is in flight
C35_InFlight_Witness ==
    /\ op = "searchHotels" /\ pc = "availability"
    /\ confirmedPlace # pre.confirmedPlace
    /\ confirmedPlace.place_id = params.place_id


\* ---------------------------------------------------------------------------
\* C37  An autocompletePlaces call whose Gateway call failed or returned no
\* predictions, and a confirmPlace call made with no suggestions in the
\* session or with a place id that is not among them, end with a status that
\* is not "success" and leave placeSuggestions, confirmedPlace and the hotel
\* map as they were before the call.
\* ---------------------------------------------------------------------------
SessionAsBefore ==
    /\ placeSuggestions = pre.placeSuggestions
    /\ confirmedPlace = pre.confirmedPlace
    /\ hotels = pre.hotels

AutocompleteFoundNothing ==
    /\ Finished("autocompletePlaces")
    /\ (~autocompleteResult.ok \/ Len(autocompleteResult.predictions) = 0)

ConfirmFoundNothing ==
    /\ Finished("confirmPlace")
    /\ \A i \in 1..Len(pre.placeSuggestions) :
           pre.placeSuggestions[i].place_id # params.place_id

C37_FailedPlaceCallsLeaveSession ==
    /\ AutocompleteFoundNothing =>
          /\ result.kind = "return"
          /\ Has(result, "status")
          /\ result.status = (IF autocompleteResult.ok THEN "empty" ELSE "error")
          /\ SessionAsBefore
    /\ ConfirmFoundNothing =>
          /\ result.kind = "return"
          /\ result.status = "error"
          /\ SessionAsBefore

\* the Gateway call fails on a session that has suggestions, a confirmed
\* place and hotels
C37_FailedPlaceCallsLeaveSession_Witness ==
    /\ AutocompleteFoundNothing
    /\ ~autocompleteResult.ok
    /\ Len(placeSuggestions) > 0
    /\ confirmedPlace # NullPlace
    /\ DOMAIN hotels # {}

\* an unknown place id given to confirmPlace on such a session
C37_UnknownPlace_Witness ==
    /\ ConfirmFoundNothing
    /\ Len(placeSuggestions) > 0
    /\ confirmedPlace # NullPlace
    /\ DOMAIN hotels # {}

\* confirmPlace on a session without suggestions
C37_NoSuggestions_Witness ==
    /\ ConfirmFoundNothing
    /\ Len(placeSuggestions) = 0


\* ---------------------------------------------------------------------------
\* C36  On the customer server (createSession, searchHotels, getHotelDetails,
\* bookHotel), in every reachable state, the states between the awaits of
\* calls that overlap included, confirmedPlace is null or is an element of
\* the current placeSuggestions.
\* ---------------------------------------------------------------------------
C36_ConfirmedPlaceIsASuggestion ==
    \/ confirmedPlace = NullPlace
    \/ \E i \in 1..Len(placeSuggestions) : placeSuggestions[i] = confirmedPlace

\* a createSession that ran to its end while a searchHotels call awaits the
\* Gateway has replaced the place the search selected
C36_ConfirmedPlaceIsASuggestion_Witness ==
    /\ op = "searchHotels" /\ pc = "availability"
    /\ earlier.pc = "done"
    /\ Has(earlier.result, "session_created")
    /\ confirmedPlace # NullPlace
    /\ confirmedPlace # placeToUse
    /\ Len(placeSuggestions) = 2


\* ---------------------------------------------------------------------------
\* C32  The state of the poll loop belongs to one invocation.  When two
\* bookHotel calls interleave at their awaits, with createSession and
\* searchHotels calls running beside them, each call sends quote-pull
\* requests for its own quote reference only, sends at most
\* MAX_QUOTE_POLL_ATTEMPTS of them, and returns what it would return if it
\* ran alone against the same Gateway answers.
\* ---------------------------------------------------------------------------
RECURSIVE AloneFrom(_, _)
\* the outcome of pollForQuoteStatus and bookHotel for a reference, run with
\* no other call in flight, n attempts being used already
AloneFrom(reference, n) ==
    IF n >= MAX_QUOTE_POLL_ATTEMPTS
    THEN [pulls |-> n, result |-> BookHotelResult(reference, NoQuote)]
    ELSE LET resp == QuoteAnswer(reference, n + 1)
         IN  IF ~resp.ok THEN AloneFrom(reference, n + 1)
             ELSE IF resp.status = "success"
             THEN [pulls |-> n + 1, result |-> BookHotelResult(reference, resp.quote)]
             ELSE IF resp.status = "failed"
             THEN [pulls |-> n + 1,
                   result |-> [kind |-> "throw", message |-> FailedText(resp)]]
             ELSE IF resp.status = "processing" THEN AloneFrom(reference, n + 1)
             ELSE [pulls |-> n + 1, result |-> BookHotelResult(reference, NoQuote)]

OtherPolls == earlier.pc \in {"delay", "pull", "done"} /\ Has(earlier, "polled")

C32_PollStateIsPerInvocation ==
    /\ (Finished("bookHotel") /\ quoteId # Undefined) =>
          /\ result = AloneFrom(quoteId, 0).result
          /\ calls.pull = AloneFrom(quoteId, 0).pulls
          /\ calls.pull <= MAX_QUOTE_POLL_ATTEMPTS
    /\ OtherPolls =>
          /\ earlier.polled \subseteq {earlier.quoteId}
          /\ earlier.pulls <= MAX_QUOTE_POLL_ATTEMPTS
    /\ (OtherPolls /\ earlier.pc = "done" /\ earlier.quoteId # Undefined) =>
          /\ earlier.result = AloneFrom(earlier.quoteId, 0).result
          /\ earlier.pulls = AloneFrom(earlier.quoteId, 0).pulls

\* both calls have ended, one with the quote of q1 after four requests, the
\* other at the end of the budget of q2, their polls having interleaved
C32_PollStateIsPerInvocation_Witness ==
    /\ Finished("bookHotel")
    /\ quoteId = "q1"
    /\ calls.pull = 4
    /\ result.status = "success"
    /\ OtherPolls /\ earlier.pc = "done"
    /\ earlier.quoteId = "q2"
    /\ earlier.pulls = MAX_QUOTE_POLL_ATTEMPTS
    /\ earlier.result.status = "processing"

\* a createSession call ran to its end while the second bookHotel call polled
C32_BesideCreateSession_Witness ==
    /\ Finished("createSession")
    /\ result.status = "success"
    /\ OtherPolls /\ earlier.pc = "pull"
    /\ earlier.pulls = 3


\* ---------------------------------------------------------------------------
\* C38  Every counter increment is delivered to the collector in exactly one
\* successful export: an increment stays in the counter until an export that
\* carries it succeeded (also one made while an export was in flight), and
\* no increment is carried by two successful exports (also when the export of
\* the timer and that of recordCounter / recordHistogram overlap).
\* ---------------------------------------------------------------------------
\* no increment was carried by two successful exports
NeverSentTwice == \A i \in 1..increments : delivered[i] <= 1

\* an increment that no successful export carried is still in the counter
NeverLost == \A i \in 1..increments : delivered[i] = 0 => i \in pending

C38_IncrementsDeliveredOnce == NeverSentTwice /\ NeverLost

\* an increment made while an export was in flight is gone although no
\* export carried it
C38_LostIncrement ==
    /\ \E i \in 1..increments : delivered[i] = 0 /\ i \notin pending
    /\ NeverSentTwice

\* the same increment went out with the timer's export and with recordCounter's
C38_DoubleDelivery == \E i \in 1..increments : delivered[i] = 2

====
